---------------------------- MODULE Spec2Model ----------------------------
(***************************************************************************)
(* The FIAS address-graph builder (src/import-fias/fias_parser.py):        *)
(* the hierarchy index, the parent resolvers, the stagers, the parent-fill *)
(* passes and the order in which main() runs them.                         *)
(*                                                                         *)
(* Object ids are strings in the XML attributes and in hierarchy_map and   *)
(* level_map, and BIGINT (integers) in the tables; ToStr and ToInt are     *)
(* the conversions; "04" is a second spelling of object 4.  The text of a  *)
(* NAME, a number or a parameter VALUE is the sequence of its characters.  *)
(***************************************************************************)
EXTENDS Integers, Sequences, FiniteSets, TLC

(***************************************************************************)
(* Bounds of the model.                                                    *)
(***************************************************************************)
\* the object ids of a run are 1..MaxId
MaxId == 5
\* a hierarchy file of the edge family holds at most MaxEdges ITEM records
\* for the settlement
MaxEdges == 2
\* the address file of the filter family holds at most MaxRecords records
MaxRecords == 2
\* the resolver is explored alone over the object ids 1..MaxWalkId
MaxWalkId == 3

Ids == 1..MaxId

(***************************************************************************)
(* Values.                                                                 *)
(***************************************************************************)
\* Python's None / SQL NULL in an integer column
None == 0
\* level_map.get(x) for an x that is no key
NoLevel == "None"
\* SQL NULL in a text column and in a count column; attr.get of an absent attribute
\* (a text is a sequence of characters, so no text equals NullText)
NullText == <<"NULL">>
NullNum == -1

SeqToSet(s) == {s[i] : i \in 1..Len(s)}

\* d[k] = v on a dict
Put(d, k, v) == [x \in (DOMAIN d) \cup {k} |-> IF x = k THEN v ELSE d[x]]

EmptyMap == [x \in {} |-> None]

(***************************************************************************)
(* str(objectid) and int(objectid_str).                                    *)
(***************************************************************************)
Digits == <<"1", "2", "3", "4", "5", "6", "7", "8", "9">>

\* str(n): the decimal spelling of a BIGINT read back from a table
ToStr(n) == Digits[n]

\* a spelling of n with a leading zero
Padded(n) == "0" \o Digits[n]

\* int(s), and the cast of an attribute string to BIGINT on insert:
\* a leading zero is dropped
ToInt(s) == CHOOSE n \in 1..Len(Digits) : s \in {Digits[n], Padded(n)}

(***************************************************************************)
(* State.                                                                  *)
(***************************************************************************)
VARIABLES
    xml,             \* the XML directory: one record stream per file group
    step,            \* position of main() in MainSteps
    log,             \* the phases main() has run, in order
    run,             \* 1 for the first run of the pipeline, 2 for the re-run
    hierarchy_map,   \* FIASParser.hierarchy_map: objectid -> parent objectid
    level_map,       \* FIASParser.level_map: objectid -> level
    municipalities,  \* table: objectid -> row
    settlements,     \* table: objectid -> row
    streets,         \* table: objectid -> row
    houses,          \* table: objectid -> row
    land_plots,      \* table: objectid -> row
    uncommitted,     \* the session holds writes not yet committed
    first_run,       \* the tables as the first run left them
    counters,        \* the counters process_addr_objects prints
    env,             \* what the process meets: the database, its stdin
    exit_code,       \* the exit code of the parser process, once it has one
    updater,         \* FIASConsoleUpdater: its position and its version file
    w                \* one resolver call, loop iteration by iteration

vars == <<xml, step, log, run, hierarchy_map, level_map, municipalities,
          settlements, streets, houses, land_plots, uncommitted, first_run,
          counters, env, exit_code, updater, w>>

\* the state outside the parser object and its database
host == <<env, exit_code, updater>>

tables == <<municipalities, settlements, streets, houses, land_plots>>

(***************************************************************************)
(* The parent resolvers.                                                   *)
(***************************************************************************)
\* self.level_map.get(x)
LevelOf(x) == IF x \in DOMAIN level_map THEN level_map[x] ELSE NoLevel

\* the while loop of find_parent_by_level
RECURSIVE WalkByLevel(_, _, _)
WalkByLevel(current_id, visited, target_levels) ==
    IF current_id = "" \/ current_id \in visited
    THEN None
    ELSE IF current_id \in DOMAIN hierarchy_map
         THEN LET parent_id == hierarchy_map[current_id]
              IN  IF LevelOf(parent_id) \in target_levels
                  THEN ToInt(parent_id)
                  ELSE WalkByLevel(parent_id, visited \cup {current_id},
                                   target_levels)
         ELSE None

FindParentByLevel(objectid, target_levels) ==
    IF objectid = None
    THEN None
    ELSE LET objectid_str == ToStr(objectid)
         IN  IF LevelOf(objectid_str) \in target_levels
             THEN ToInt(objectid_str)
             ELSE WalkByLevel(objectid_str, {}, target_levels)

\* the while loop of find_mo_parent
RECURSIVE WalkMo(_, _)
WalkMo(current_id, visited) ==
    IF current_id = "" \/ current_id \in visited
    THEN None
    ELSE IF current_id \in DOMAIN hierarchy_map
         THEN LET parent_id == hierarchy_map[current_id]
              IN  IF LevelOf(parent_id) \in {"3", "4"}
                  THEN ToInt(parent_id)
                  ELSE WalkMo(parent_id, visited \cup {current_id})
         ELSE None

FindMoParent(objectid) ==
    IF objectid = None
    THEN None
    ELSE LET objectid_str == ToStr(objectid)
         IN  IF LevelOf(objectid_str) \in {"3", "4"}
             THEN ToInt(objectid_str)
             ELSE WalkMo(objectid_str, {})

(***************************************************************************)
(* The hierarchy index: load_hierarchy_and_levels.                         *)
(***************************************************************************)
\* the records of every file of a group, in the order they are read
RECURSIVE Records(_)
Records(files) ==
    IF files = <<>> THEN <<>> ELSE Head(files) \o Records(Tail(files))

\* the test of ISACTIVE alone
IsActiveOnly(attr) == attr.ISACTIVE = "1"

\* attr.get('ISACTUAL') == '1' and attr.get('ISACTIVE') == '1'
IsActiveRecord(attr) == attr.ISACTUAL = "1" /\ attr.ISACTIVE = "1"

\* step 1: the level scan over the OBJECT records of AS_ADDR_OBJ
RECURSIVE LevelScan(_, _)
LevelScan(records, lm) ==
    IF records = <<>>
    THEN lm
    ELSE LET attr == Head(records)
         IN  LevelScan(Tail(records),
                       IF /\ IsActiveRecord(attr)
                          /\ attr.OBJECTID # "" /\ attr.LEVEL # ""
                       THEN Put(lm, attr.OBJECTID, attr.LEVEL)
                       ELSE lm)

\* the scan of AS_MUN_HIERARCHY keeping the first edge of a child
RECURSIVE MunScanFirstWins(_, _)
MunScanFirstWins(records, hm) ==
    IF records = <<>>
    THEN hm
    ELSE LET attr == Head(records)
         IN  MunScanFirstWins(Tail(records),
                     IF /\ attr.ISACTIVE = "1"
                        /\ attr.OBJECTID # "" /\ attr.PARENTOBJID # ""
                        /\ attr.OBJECTID \notin DOMAIN hm
                     THEN Put(hm, attr.OBJECTID, attr.PARENTOBJID)
                     ELSE hm)

\* step 2: the scan of AS_MUN_HIERARCHY, which writes unconditionally
RECURSIVE MunScan(_, _)
MunScan(records, hm) ==
    IF records = <<>>
    THEN hm
    ELSE LET attr == Head(records)
         IN  MunScan(Tail(records),
                     IF /\ attr.ISACTIVE = "1"
                        /\ attr.OBJECTID # "" /\ attr.PARENTOBJID # ""
                     THEN Put(hm, attr.OBJECTID, attr.PARENTOBJID)
                     ELSE hm)

\* step 3: the scan of AS_ADM_HIERARCHY, which writes only absent keys
RECURSIVE AdmScan(_, _)
AdmScan(records, hm) ==
    IF records = <<>>
    THEN hm
    ELSE LET attr == Head(records)
         IN  AdmScan(Tail(records),
                     IF /\ attr.ISACTIVE = "1"
                        /\ attr.OBJECTID # "" /\ attr.PARENTOBJID # ""
                        /\ attr.OBJECTID \notin DOMAIN hm
                     THEN Put(hm, attr.OBJECTID, attr.PARENTOBJID)
                     ELSE hm)

\* the index with the two scans in the other roles: the ADM file written
\* unconditionally, the MUN file filling the absent keys
AdmFirstHierarchy(dir) == AdmScan(Records(dir.mun), MunScan(Records(dir.adm), EmptyMap))

\* hierarchy_map as load_hierarchy_and_levels leaves it
LoadedHierarchy(dir) == AdmScan(Records(dir.adm), MunScan(Records(dir.mun), EmptyMap))

\* the level scan without the test of ISACTUAL and ISACTIVE
LevelsOfAllRecords(dir) ==
    LET records == Records(dir.addr)
    IN  LevelScan([i \in DOMAIN records |->
                      [records[i] EXCEPT !.ISACTUAL = "1", !.ISACTIVE = "1"]],
                  EmptyMap)

\* level_map as load_hierarchy_and_levels leaves it
LoadedLevels(dir) == LevelScan(Records(dir.addr), EmptyMap)

(***************************************************************************)
(* The stagers.                                                            *)
(***************************************************************************)
\* batch_size of process_addr_objects, process_houses, process_land_plots
batch_size == 5000

\* INSERT ... ON CONFLICT (objectid) DO UPDATE, row by row
RECURSIVE InsertBatchLastWins(_, _)
InsertBatchLastWins(table, batch_data) ==
    IF batch_data = <<>>
    THEN table
    ELSE LET row == Head(batch_data)
         IN  InsertBatchLastWins(Put(table, ToInt(row.OBJECTID), row.columns),
                                 Tail(batch_data))

\* INSERT ... ON CONFLICT (objectid) DO NOTHING, row by row
RECURSIVE InsertBatch(_, _)
InsertBatch(table, batch_data) ==
    IF batch_data = <<>>
    THEN table
    ELSE LET row == Head(batch_data)
             objectid == ToInt(row.OBJECTID)
         IN  InsertBatch(IF objectid \in DOMAIN table
                         THEN table
                         ELSE Put(table, objectid, row.columns),
                         Tail(batch_data))

\* the INSERT of a row of batch_data raises UniqueViolation: its objectid is
\* new to the table, so ON CONFLICT (objectid) does not apply, and its id is
\* the PRIMARY KEY of a row
RECURSIVE BatchRaises(_, _)
BatchRaises(table, batch_data) ==
    IF batch_data = <<>>
    THEN FALSE
    ELSE LET row == Head(batch_data)
             objectid == ToInt(row.OBJECTID)
         IN  IF objectid \in DOMAIN table
             THEN BatchRaises(table, Tail(batch_data))
             ELSE IF \E o \in DOMAIN table : table[o].id = row.columns.id
             THEN TRUE
             ELSE BatchRaises(Put(table, objectid, row.columns), Tail(batch_data))

\* counters = {'municipalities': 0, 'settlements': 0, 'streets': 0, 'other': 0}
NoCounts == [municipalities |-> 0, settlements |-> 0, streets |-> 0, other |-> 0]

\* base_data of an OBJECT record (attr.get('NAME', ''), attr.get('TYPENAME',
\* '')) and the columns the INSERT leaves NULL
AddrRow(attr, nulls) ==
    [OBJECTID |-> attr.OBJECTID,
     columns  |-> [id |-> attr.ID,
                   name |-> IF attr.NAME = NullText THEN <<>> ELSE attr.NAME,
                   typename |-> IF attr.TYPENAME = NullText THEN <<>>
                                ELSE attr.TYPENAME,
                   level |-> attr.LEVEL,
                   isactual |-> 1, isactive |-> 1] @@ nulls]

\* one file of process_addr_objects: the record loop and the remainders
RECURSIVE AddrFileLoop(_, _)
AddrFileLoop(records, acc) ==
    IF records = <<>>
    THEN [m |-> InsertBatch(acc.m, acc.mb), s |-> InsertBatch(acc.s, acc.sb),
          t |-> InsertBatch(acc.t, acc.tb), mb |-> <<>>, sb |-> <<>>, tb |-> <<>>,
          counters |-> acc.counters,
          raised |-> \/ acc.raised
                     \/ BatchRaises(acc.m, acc.mb)
                     \/ BatchRaises(acc.s, acc.sb)
                     \/ BatchRaises(acc.t, acc.tb)]
    ELSE LET attr == Head(records)
             act  == IsActiveRecord(attr)
             mb   == IF act /\ attr.LEVEL \in {"3", "4"}
                     THEN Append(acc.mb, AddrRow(attr, [parent_id |-> None]))
                     ELSE acc.mb
             sb   == IF act /\ attr.LEVEL \in {"5", "6"}
                     THEN Append(acc.sb, AddrRow(attr, [municipality_id |-> None]))
                     ELSE acc.sb
             tb   == IF act /\ attr.LEVEL \in {"7", "8"}
                     THEN Append(acc.tb, AddrRow(attr, [settlement_id |-> None,
                                                        municipality_id |-> None]))
                     ELSE acc.tb
             kind == IF ~act THEN "none"
                     ELSE IF attr.LEVEL \in {"3", "4"} THEN "municipalities"
                     ELSE IF attr.LEVEL \in {"5", "6"} THEN "settlements"
                     ELSE IF attr.LEVEL \in {"7", "8"} THEN "streets"
                     ELSE "other"
             mf   == Len(mb) >= batch_size
             sf   == Len(sb) >= batch_size
             tf   == Len(tb) >= batch_size
         IN  AddrFileLoop(Tail(records),
                 [m  |-> IF mf THEN InsertBatch(acc.m, mb) ELSE acc.m,
                  s  |-> IF sf THEN InsertBatch(acc.s, sb) ELSE acc.s,
                  t  |-> IF tf THEN InsertBatch(acc.t, tb) ELSE acc.t,
                  mb |-> IF mf THEN <<>> ELSE mb,
                  sb |-> IF sf THEN <<>> ELSE sb,
                  tb |-> IF tf THEN <<>> ELSE tb,
                  counters |-> IF kind = "none" THEN acc.counters
                               ELSE [acc.counters EXCEPT ![kind] = @ + 1],
                  raised |-> \/ acc.raised
                             \/ mf /\ BatchRaises(acc.m, mb)
                             \/ sf /\ BatchRaises(acc.s, sb)
                             \/ tf /\ BatchRaises(acc.t, tb)])

\* process_addr_objects over the files of AS_ADDR_OBJ
RECURSIVE AddrFiles(_, _)
AddrFiles(files, acc) ==
    IF files = <<>>
    THEN acc
    ELSE AddrFiles(Tail(files), AddrFileLoop(Head(files), acc))

StagedAddrObjects(dir) ==
    AddrFiles(dir.addr, [m |-> municipalities, s |-> settlements, t |-> streets,
                         mb |-> <<>>, sb |-> <<>>, tb |-> <<>>,
                         counters |-> NoCounts, raised |-> FALSE])

\* a staged HOUSE record: the inserted columns, the others NULL
HouseRow(attr) ==
    [OBJECTID |-> attr.OBJECTID,
     columns  |-> [id |-> attr.ID, house_number |-> attr.HOUSENUM,
                   building_number |-> attr.ADDNUM1,
                   structure_number |-> attr.ADDNUM2,
                   isactual |-> 1, isactive |-> 1,
                   street_id |-> None, settlement_id |-> None,
                   municipality_id |-> None,
                   cadastral_number |-> NullText, floors_count |-> NullNum,
                   residents_count |-> NullNum, full_address |-> NullText]]

\* a staged STEAD record: the inserted columns, the others NULL
SteadRow(attr) ==
    [OBJECTID |-> attr.OBJECTID,
     columns  |-> [id |-> attr.ID, number_plot |-> attr.NUMBER,
                   isactual |-> 1, isactive |-> 1,
                   settlement_id |-> None, municipality_id |-> None]]

LeafRow(tag, attr) == IF tag = "HOUSE" THEN HouseRow(attr) ELSE SteadRow(attr)

\* one file of process_houses (tag HOUSE) or process_land_plots (tag STEAD)
RECURSIVE LeafFileLoop(_, _, _, _)
LeafFileLoop(records, table, batch_data, tag) ==
    IF records = <<>>
    THEN [rows   |-> InsertBatch(table.rows, batch_data),
          raised |-> table.raised \/ BatchRaises(table.rows, batch_data)]
    ELSE LET attr  == Head(records)
             batch == IF IsActiveRecord(attr)
                      THEN Append(batch_data, LeafRow(tag, attr))
                      ELSE batch_data
         IN  IF Len(batch) >= batch_size
             THEN LeafFileLoop(Tail(records),
                               [rows   |-> InsertBatch(table.rows, batch),
                                raised |-> \/ table.raised
                                           \/ BatchRaises(table.rows, batch)],
                               <<>>, tag)
             ELSE LeafFileLoop(Tail(records), table, batch, tag)

RECURSIVE LeafFiles(_, _, _)
LeafFiles(files, table, tag) ==
    IF files = <<>>
    THEN table
    ELSE LeafFiles(Tail(files), LeafFileLoop(Head(files), table, <<>>, tag), tag)

StagedHouses(dir) ==
    LeafFiles(dir.houses, [rows |-> houses, raised |-> FALSE], "HOUSE")

StagedLandPlots(dir) ==
    LeafFiles(dir.steads, [rows |-> land_plots, raised |-> FALSE], "STEAD")

(***************************************************************************)
(* The parent-fill passes.                                                 *)
(***************************************************************************)
\* build_hierarchy_links_fixed, 1: municipalities.parent_id
LinkedMunicipalities ==
    [mun_id \in DOMAIN municipalities |->
        LET parent_id == FindMoParent(mun_id)
        IN  IF parent_id # None /\ parent_id # mun_id
            THEN [municipalities[mun_id] EXCEPT !.parent_id = parent_id]
            ELSE municipalities[mun_id]]

\* build_hierarchy_links_fixed, 2: settlements.municipality_id
LinkedSettlements ==
    [settlement_id \in DOMAIN settlements |->
        LET mo_id == FindMoParent(settlement_id)
        IN  IF mo_id # None
            THEN [settlements[settlement_id] EXCEPT !.municipality_id = mo_id]
            ELSE settlements[settlement_id]]

\* build_hierarchy_links_fixed, 3: streets.settlement_id
StreetsWithSettlement ==
    [street_id \in DOMAIN streets |->
        LET settlement_id == FindParentByLevel(street_id, {"5", "6"})
        IN  IF settlement_id # None
            THEN [streets[street_id] EXCEPT !.settlement_id = settlement_id]
            ELSE streets[street_id]]

\* the street taking the municipality of its own walk, whatever its
\* settlement
StreetsWithOwnMunicipality(st, s) ==
    [street_id \in DOMAIN st |->
        LET mo_id == FindMoParent(street_id)
        IN  IF mo_id # None
            THEN [st[street_id] EXCEPT !.municipality_id = mo_id]
            ELSE st[street_id]]

\* build_hierarchy_links_fixed, 4: UPDATE streets SET municipality_id =
\* s.municipality_id FROM settlements s WHERE streets.settlement_id =
\* s.objectid AND s.municipality_id IS NOT NULL
StreetsWithMunicipality(st, s) ==
    [street_id \in DOMAIN st |->
        LET sid == st[street_id].settlement_id
        IN  IF sid \in DOMAIN s /\ s[sid].municipality_id # None
            THEN [st[street_id] EXCEPT !.municipality_id = s[sid].municipality_id]
            ELSE st[street_id]]

\* streets as build_hierarchy_links_fixed leaves them
LinkedStreets == StreetsWithMunicipality(StreetsWithSettlement, LinkedSettlements)

\* link_houses_to_hierarchy_fixed without the lookup of the municipality
LinkedHousesWithoutMo ==
    [house_id \in DOMAIN houses |->
        LET street_id     == FindParentByLevel(house_id, {"7", "8"})
            settlement_id == FindParentByLevel(house_id, {"5", "6"})
        IN  IF street_id # None \/ settlement_id # None
            THEN [houses[house_id] EXCEPT !.street_id = street_id,
                                          !.settlement_id = settlement_id]
            ELSE houses[house_id]]

\* link_houses_to_hierarchy_fixed: the three lookups and the batched UPDATE
LinkedHouses ==
    [house_id \in DOMAIN houses |->
        LET street_id     == FindParentByLevel(house_id, {"7", "8"})
            settlement_id == FindParentByLevel(house_id, {"5", "6"})
            mo_id         == FindMoParent(house_id)
        IN  IF street_id # None \/ settlement_id # None \/ mo_id # None
            THEN [houses[house_id] EXCEPT !.street_id = street_id,
                                          !.settlement_id = settlement_id,
                                          !.municipality_id = mo_id]
            ELSE houses[house_id]]

\* fix_municipality_links: UPDATE t SET municipality_id = s.municipality_id
\* FROM settlements s WHERE t.settlement_id = s.objectid AND
\* s.municipality_id IS NOT NULL AND t.municipality_id IS NULL
FilledThroughSettlement(t) ==
    [o \in DOMAIN t |->
        LET sid == t[o].settlement_id
        IN  IF /\ t[o].municipality_id = None
               /\ sid \in DOMAIN settlements
               /\ settlements[sid].municipality_id # None
            THEN [t[o] EXCEPT !.municipality_id = settlements[sid].municipality_id]
            ELSE t[o]]

\* fix_final_mo_connections, 2: UPDATE houses h SET municipality_id =
\* st.municipality_id FROM streets st WHERE h.street_id = st.objectid AND
\* st.municipality_id IS NOT NULL AND h.municipality_id IS NULL
FilledThroughStreet(h) ==
    [o \in DOMAIN h |->
        LET sid == h[o].street_id
        IN  IF /\ h[o].municipality_id = None
               /\ sid \in DOMAIN streets
               /\ streets[sid].municipality_id # None
            THEN [h[o] EXCEPT !.municipality_id = streets[sid].municipality_id]
            ELSE h[o]]

\* fix_final_mo_connections, 3: the direct lookup for the houses still
\* without a municipality
FilledByDirectLookup(h) ==
    [o \in DOMAIN h |->
        LET mo_id == IF h[o].municipality_id = None
                     THEN FindParentByLevel(o, {"3", "4"})
                     ELSE None
        IN  IF mo_id # None
            THEN [h[o] EXCEPT !.municipality_id = mo_id]
            ELSE h[o]]

\* houses as fix_final_mo_connections would leave them
FixedFinalMoConnections == FilledByDirectLookup(FilledThroughStreet(houses))

\* link_land_plots_to_hierarchy
LinkedLandPlots ==
    [plot_id \in DOMAIN land_plots |->
        LET settlement_id == FindParentByLevel(plot_id, {"5", "6"})
            mun_id        == FindParentByLevel(plot_id, {"3", "4"})
        IN  IF settlement_id # None \/ mun_id # None
            THEN [land_plots[plot_id] EXCEPT !.settlement_id = settlement_id,
                                             !.municipality_id = mun_id]
            ELSE land_plots[plot_id]]

(***************************************************************************)
(* House parameters: process_house_params and validate_param_value.        *)
(***************************************************************************)
\* a cadastral number of 101 characters: "66:" and 98 digits
LongCadastral == <<"6", "6", ":">> \o [i \in 1..98 |-> "0"]

Spaces == {" "}

\* str.strip(): the text without its leading and trailing whitespace
RECURSIVE LStrip(_)
LStrip(text) ==
    IF text # <<>> /\ Head(text) \in Spaces THEN LStrip(Tail(text)) ELSE text

RECURSIVE RStrip(_)
RStrip(text) ==
    IF text # <<>> /\ text[Len(text)] \in Spaces
    THEN RStrip(SubSeq(text, 1, Len(text) - 1))
    ELSE text

Strip(value) == RStrip(LStrip(value))

\* ':' in clean_value
HasColon(text) == \E i \in 1..Len(text) : text[i] = ":"

\* clean_value without the cut
WholeText(text) == text

\* clean_value[:100]
First100(text) == SubSeq(text, 1, IF Len(text) < 100 THEN Len(text) ELSE 100)

DigitChars == <<"0", "1", "2", "3", "4", "5", "6", "7", "8", "9">>

IsDigit(c) == \E d \in 1..10 : DigitChars[d] = c

DigitValue(c) == (CHOOSE d \in 1..10 : DigitChars[d] = c) - 1

\* the value of a sequence of digits, 0 for the empty one
RECURSIVE Decimal(_)
Decimal(digits) ==
    IF digits = <<>>
    THEN 0
    ELSE 10 * Decimal(SubSeq(digits, 1, Len(digits) - 1))
         + DigitValue(digits[Len(digits)])

\* int(float(clean_value)) on a text of digits, '.', '-', '+', ':', ' ' and
\* letters other than e, i, n, a, f, with at most 15 digits: the set holding
\* the number, empty when float() raises.  float() takes a sign, digits and
\* one optional point with a digit on at least one side; int() drops the
\* fraction.
IntOfFloat(text) ==
    LET signed == text # <<>> /\ Head(text) \in {"-", "+"}
        body   == IF signed THEN Tail(text) ELSE text
        points == {i \in 1..Len(body) : body[i] = "."}
        point  == IF points = {} THEN Len(body) + 1 ELSE CHOOSE i \in points : TRUE
        whole  == SubSeq(body, 1, point - 1)
        valid  == /\ Cardinality(points) <= 1
                  /\ \A i \in 1..Len(body) : body[i] = "." \/ IsDigit(body[i])
                  /\ \E i \in 1..Len(body) : IsDigit(body[i])
    IN  IF ~ valid
        THEN {}
        ELSE IF signed /\ Head(text) = "-" THEN {0 - Decimal(whole)}
        ELSE {Decimal(whole)}

\* validate_param_value without the test 0 <= num <= 1000
ValidateWithoutRange(field_name, value) ==
    LET clean_value == Strip(value)
    IN  IF clean_value = <<>>
        THEN {}
        ELSE IF field_name = "cadastral_number"
        THEN IF HasColon(clean_value) THEN {First100(clean_value)} ELSE {}
        ELSE IF field_name \in {"residents_count", "floors_count"}
        THEN IntOfFloat(clean_value)
        ELSE {First100(clean_value)}

\* validate_param_value: the set holding the clean value, empty for None
ValidateParamValue(field_name, value) ==
    LET clean_value == Strip(value)
    IN  IF clean_value = <<>>
        THEN {}
        ELSE IF field_name = "cadastral_number"
        THEN IF HasColon(clean_value) THEN {First100(clean_value)} ELSE {}
        ELSE IF field_name \in {"residents_count", "floors_count"}
        THEN {num \in IntOfFloat(clean_value) : 0 <= num /\ num <= 1000}
        ELSE {First100(clean_value)}

\* param_mapping.get(typeid): the set holding the field, empty for None
ParamField(typeid) ==
    CASE typeid = "8"  -> {"cadastral_number"}
      [] typeid = "14" -> {"residents_count"}
      [] typeid = "15" -> {"floors_count"}
      [] OTHER         -> {}

\* UPDATE houses SET field_name = clean_value WHERE objectid = objectid
SetHouseField(h, objectid, field_name, clean_value) ==
    IF objectid \notin DOMAIN h
    THEN h
    ELSE CASE field_name = "cadastral_number" ->
                [h EXCEPT ![objectid].cadastral_number = clean_value]
           [] field_name = "residents_count" ->
                [h EXCEPT ![objectid].residents_count = clean_value]
           [] field_name = "floors_count" ->
                [h EXCEPT ![objectid].floors_count = clean_value]

\* one PARAM record, a rejected value writing NULL into the field
AppliedParamClearing(h, attr) ==
    IF attr.OBJECTID = "" \/ attr.TYPEID = "" \/ attr.VALUE \in {NullText, <<>>}
    THEN h
    ELSE LET fields == ParamField(attr.TYPEID)
         IN  IF fields = {}
             THEN h
             ELSE LET field_name == CHOOSE f \in fields : TRUE
                      clean      == ValidateParamValue(field_name, attr.VALUE)
                  IN  SetHouseField(h, ToInt(attr.OBJECTID), field_name,
                                    IF clean # {} THEN CHOOSE v \in clean : TRUE
                                    ELSE IF field_name = "cadastral_number"
                                    THEN NullText ELSE NullNum)

\* one PARAM record of process_house_params
AppliedParam(h, attr) ==
    IF attr.OBJECTID = "" \/ attr.TYPEID = "" \/ attr.VALUE \in {NullText, <<>>}
    THEN h
    ELSE LET fields == ParamField(attr.TYPEID)
         IN  IF fields = {}
             THEN h
             ELSE LET field_name == CHOOSE f \in fields : TRUE
                      clean      == ValidateParamValue(field_name, attr.VALUE)
                  IN  IF clean = {}
                      THEN h
                      ELSE SetHouseField(h, ToInt(attr.OBJECTID), field_name,
                                         CHOOSE v \in clean : TRUE)

\* the PARAM records of the files of AS_HOUSES_PARAMS, in order
RECURSIVE AppliedParams(_, _)
AppliedParams(h, records) ==
    IF records = <<>>
    THEN h
    ELSE AppliedParams(AppliedParam(h, Head(records)), Tail(records))

(***************************************************************************)
(* Address composition: build_full_addresses.                              *)
(***************************************************************************)
\* CONCAT_WS(', ', ...): the non-NULL parts joined by ', '
RECURSIVE ConcatWs(_)
ConcatWs(parts) ==
    IF parts = <<>>
    THEN <<>>
    ELSE IF Head(parts) = NullText
    THEN ConcatWs(Tail(parts))
    ELSE IF \A i \in 1..Len(Tail(parts)) : Tail(parts)[i] = NullText
    THEN Head(parts)
    ELSE Head(parts) \o <<",", " ">> \o ConcatWs(Tail(parts))

\* CASE WHEN x IS NOT NULL THEN prefix || x END
Prefixed(prefix, x) == IF x = NullText THEN NullText ELSE prefix \o x

\* TRIM(text): the text without its leading and trailing spaces
Trim(text) == RStrip(LStrip(text))

\* the SET clause with the street part ahead of the settlement part
FullAddressStreetFirst(h, m, set, st) ==
    Trim(ConcatWs(<<m.name,
                    Prefixed(st.typename \o <<" ">>, st.name),
                    Prefixed(set.typename \o <<" ">>, set.name),
                    Prefixed(<<"d", ".", " ">>, h.house_number),
                    Prefixed(<<"k", ".", " ">>, h.building_number),
                    Prefixed(<<"s", "t", "r", ".", " ">>, h.structure_number)>>))

\* the SET clause for a house h joined to m, set and st; the Cyrillic
\* prefixes of the house, building and structure numbers are transliterated
FullAddress(h, m, set, st) ==
    Trim(ConcatWs(<<m.name,
                    Prefixed(set.typename \o <<" ">>, set.name),
                    Prefixed(st.typename \o <<" ">>, st.name),
                    Prefixed(<<"d", ".", " ">>, h.house_number),
                    Prefixed(<<"k", ".", " ">>, h.building_number),
                    Prefixed(<<"s", "t", "r", ".", " ">>, h.structure_number)>>))

\* the UPDATE with the settlement and the street joined by LEFT JOIN
AddressedByMunicipality ==
    [o \in DOMAIN houses |->
        LET h == houses[o]
            absent == [name |-> NullText, typename |-> <<>>]
        IN  IF h.municipality_id \in DOMAIN municipalities
            THEN [h EXCEPT !.full_address =
                      FullAddress(h, municipalities[h.municipality_id],
                                  IF h.settlement_id \in DOMAIN settlements
                                  THEN settlements[h.settlement_id] ELSE absent,
                                  IF h.street_id \in DOMAIN streets
                                  THEN streets[h.street_id] ELSE absent)]
            ELSE h]

\* UPDATE houses h SET full_address = ... FROM municipalities m, settlements
\* set, streets st WHERE h.municipality_id = m.objectid AND h.settlement_id =
\* set.objectid AND h.street_id = st.objectid
AddressedHouses ==
    [o \in DOMAIN houses |->
        LET h == houses[o]
        IN  IF /\ h.municipality_id \in DOMAIN municipalities
               /\ h.settlement_id \in DOMAIN settlements
               /\ h.street_id \in DOMAIN streets
            THEN [h EXCEPT !.full_address =
                      FullAddress(h, municipalities[h.municipality_id],
                                  settlements[h.settlement_id],
                                  streets[h.street_id])]
            ELSE h]

(***************************************************************************)
(* main(): the phases in program order.                                    *)
(***************************************************************************)
\* the phases with the stager of the address objects ahead of the index
StagerFirstSteps ==
    <<"create_schema",
      "process_addr_objects",
      "load_hierarchy_and_levels",
      "build_hierarchy_links_fixed",
      "process_houses",
      "link_houses_to_hierarchy_fixed",
      "fix_municipality_links",
      "process_house_params",
      "process_land_plots",
      "link_land_plots_to_hierarchy",
      "build_full_addresses",
      "get_statistics">>

MainSteps ==
    <<"create_schema",
      "load_hierarchy_and_levels",
      "process_addr_objects",
      "build_hierarchy_links_fixed",
      "process_houses",
      "link_houses_to_hierarchy_fixed",
      "fix_municipality_links",
      "process_house_params",
      "process_land_plots",
      "link_land_plots_to_hierarchy",
      "build_full_addresses",
      "get_statistics">>

\* main() is about to call `phase`
At(phase) == step \in 1..Len(MainSteps) /\ MainSteps[step] = phase

\* main() is about to call parser.connect()
Connecting == step = 0

\* main() has returned from get_statistics and printed the end of the run
Finished == step = Len(MainSteps) + 1

\* main() has returned early: connect() failed, or a phase raised and the
\* except clause printed the error; parser.close() has run
Aborted == step = Len(MainSteps) + 2

\* the process has ended
Exited == step = Len(MainSteps) + 3

\* the call returns and main() moves on
Return(phase) == step' = step + 1 /\ log' = Append(log, phase)

\* the call raises: main() goes to its except clause and then to close(),
\* which drops the transaction the phase has not committed
Raise(phase) ==
    /\ step' = Len(MainSteps) + 2
    /\ log' = Append(log, "exception")
    /\ uncommitted' = FALSE

\* parser.connect(): True, or False when psycopg2.connect raises
Connect ==
    /\ Connecting
    /\ IF env.db_up
       THEN step' = 1 /\ log' = log
       ELSE step' = Len(MainSteps) + 2 /\ log' = Append(log, "connect failed")
    /\ UNCHANGED <<xml, run, hierarchy_map, level_map, tables, uncommitted,
                   first_run, counters, w, host>>

\* the finally clause of the script: input() returns on a line of stdin and
\* the process ends with code 0; at the end of stdin it raises EOFError and
\* the process ends with code 1; on a silent stdin it does not return
Exit ==
    /\ Finished \/ Aborted
    /\ env.stdin # "silent"
    /\ exit_code' = IF env.stdin = "line" THEN 0 ELSE 1
    /\ step' = Len(MainSteps) + 3
    /\ UNCHANGED <<xml, log, run, hierarchy_map, level_map, tables, uncommitted,
                   first_run, counters, env, updater, w>>

EmptyTable == [o \in {} |-> None]

\* create_schema with CREATE TABLE IF NOT EXISTS in place of the DROPs
CreateSchemaKeepingRows ==
    /\ At("create_schema")
    /\ uncommitted' = FALSE
    /\ Return("create_schema")
    /\ UNCHANGED <<xml, run, hierarchy_map, level_map, tables, first_run,
                   counters, w, host>>

\* DROP TABLE IF EXISTS ... ; CREATE TABLE ... ; commit
CreateSchema ==
    /\ At("create_schema")
    /\ municipalities' = EmptyTable
    /\ settlements' = EmptyTable
    /\ streets' = EmptyTable
    /\ houses' = EmptyTable
    /\ land_plots' = EmptyTable
    /\ uncommitted' = FALSE
    /\ Return("create_schema")
    /\ UNCHANGED <<xml, run, hierarchy_map, level_map, first_run, counters, w,
                   host>>

LoadHierarchyAndLevels ==
    /\ At("load_hierarchy_and_levels")
    /\ level_map' = LoadedLevels(xml)
    /\ hierarchy_map' = LoadedHierarchy(xml)
    /\ Return("load_hierarchy_and_levels")
    /\ UNCHANGED <<xml, run, tables, uncommitted, first_run, counters, w, host>>

\* returns before the loop and the commit when no file is found
ProcessAddrObjects ==
    /\ At("process_addr_objects")
    /\ IF xml.addr = <<>>
       THEN /\ UNCHANGED <<municipalities, settlements, streets, uncommitted,
                           counters>>
            /\ Return("process_addr_objects")
       ELSE LET staged == StagedAddrObjects(xml)
            IN  IF staged.raised
                THEN /\ Raise("process_addr_objects")
                     /\ UNCHANGED <<municipalities, settlements, streets,
                                    counters>>
                ELSE /\ municipalities' = staged.m
                     /\ settlements' = staged.s
                     /\ streets' = staged.t
                     /\ counters' = staged.counters
                     /\ uncommitted' = FALSE
                     /\ Return("process_addr_objects")
    /\ UNCHANGED <<xml, run, hierarchy_map, level_map, houses, land_plots,
                   first_run, w, host>>

BuildHierarchyLinksFixed ==
    /\ At("build_hierarchy_links_fixed")
    /\ municipalities' = LinkedMunicipalities
    /\ settlements' = LinkedSettlements
    /\ streets' = LinkedStreets
    /\ uncommitted' = FALSE
    /\ Return("build_hierarchy_links_fixed")
    /\ UNCHANGED <<xml, run, hierarchy_map, level_map, houses, land_plots,
                   first_run, counters, w, host>>

\* AS_HOUSES files whose name holds PARAM are the parameter files
ProcessHouses ==
    /\ At("process_houses")
    /\ IF xml.houses = <<>>
       THEN UNCHANGED <<houses, uncommitted>> /\ Return("process_houses")
       ELSE LET staged == StagedHouses(xml)
            IN  IF staged.raised
                THEN Raise("process_houses") /\ UNCHANGED houses
                ELSE /\ houses' = staged.rows
                     /\ uncommitted' = FALSE
                     /\ Return("process_houses")
    /\ UNCHANGED <<xml, run, hierarchy_map, level_map, municipalities,
                   settlements, streets, land_plots, first_run, counters, w,
                   host>>

\* the updates and the commit, then diagnose_house_connections_fixed, which
\* divides by the COUNT(*) of houses: ZeroDivisionError on an empty table
LinkHousesToHierarchyFixed ==
    /\ At("link_houses_to_hierarchy_fixed")
    /\ houses' = LinkedHouses
    /\ IF DOMAIN houses = {}
       THEN Raise("link_houses_to_hierarchy_fixed")
       ELSE uncommitted' = FALSE /\ Return("link_houses_to_hierarchy_fixed")
    /\ UNCHANGED <<xml, run, hierarchy_map, level_map, municipalities,
                   settlements, streets, land_plots, first_run, counters, w,
                   host>>

FixMunicipalityLinks ==
    /\ At("fix_municipality_links")
    /\ houses' = FilledThroughSettlement(houses)
    /\ land_plots' = FilledThroughSettlement(land_plots)
    /\ uncommitted' = FALSE
    /\ Return("fix_municipality_links")
    /\ UNCHANGED <<xml, run, hierarchy_map, level_map, municipalities,
                   settlements, streets, first_run, counters, w, host>>

ProcessHouseParams ==
    /\ At("process_house_params")
    /\ IF xml.params = <<>>
       THEN UNCHANGED <<houses, uncommitted>>
       ELSE /\ houses' = AppliedParams(houses, Records(xml.params))
            /\ uncommitted' = FALSE
    /\ Return("process_house_params")
    /\ UNCHANGED <<xml, run, hierarchy_map, level_map, municipalities,
                   settlements, streets, land_plots, first_run, counters, w,
                   host>>

ProcessLandPlots ==
    /\ At("process_land_plots")
    /\ IF xml.steads = <<>>
       THEN UNCHANGED <<land_plots, uncommitted>> /\ Return("process_land_plots")
       ELSE LET staged == StagedLandPlots(xml)
            IN  IF staged.raised
                THEN Raise("process_land_plots") /\ UNCHANGED land_plots
                ELSE /\ land_plots' = staged.rows
                     /\ uncommitted' = FALSE
                     /\ Return("process_land_plots")
    /\ UNCHANGED <<xml, run, hierarchy_map, level_map, municipalities,
                   settlements, streets, houses, first_run, counters, w, host>>

\* link_land_plots_to_hierarchy dropping the index after its last lookup
LinkLandPlotsDroppingIndex ==
    /\ At("link_land_plots_to_hierarchy")
    /\ land_plots' = LinkedLandPlots
    /\ uncommitted' = FALSE
    /\ hierarchy_map' = EmptyMap
    /\ level_map' = EmptyMap
    /\ Return("link_land_plots_to_hierarchy")
    /\ UNCHANGED <<xml, run, municipalities,
                   settlements, streets, houses, first_run, counters, w, host>>

LinkLandPlotsToHierarchy ==
    /\ At("link_land_plots_to_hierarchy")
    /\ land_plots' = LinkedLandPlots
    /\ uncommitted' = FALSE
    /\ Return("link_land_plots_to_hierarchy")
    /\ UNCHANGED <<xml, run, hierarchy_map, level_map, municipalities,
                   settlements, streets, houses, first_run, counters, w, host>>

BuildFullAddresses ==
    /\ At("build_full_addresses")
    /\ houses' = AddressedHouses
    /\ uncommitted' = FALSE
    /\ Return("build_full_addresses")
    /\ UNCHANGED <<xml, run, hierarchy_map, level_map, municipalities,
                   settlements, streets, land_plots, first_run, counters, w,
                   host>>

\* get_statistics only reads
GetStatistics ==
    /\ At("get_statistics")
    /\ Return("get_statistics")
    /\ UNCHANGED <<xml, run, hierarchy_map, level_map, tables, uncommitted,
                   first_run, counters, w, host>>

Next ==
    \/ Connect
    \/ CreateSchema
    \/ LoadHierarchyAndLevels
    \/ ProcessAddrObjects
    \/ BuildHierarchyLinksFixed
    \/ ProcessHouses
    \/ LinkHousesToHierarchyFixed
    \/ FixMunicipalityLinks
    \/ ProcessHouseParams
    \/ ProcessLandPlots
    \/ LinkLandPlotsToHierarchy
    \/ BuildFullAddresses
    \/ GetStatistics
    \/ Exit

(***************************************************************************)
(* The XML directories the runs are explored on.                           *)
(***************************************************************************)
\* an OBJECT element of AS_ADDR_OBJ
Object(id, objectid, level, actual, active) ==
    [ID |-> id, OBJECTID |-> objectid, LEVEL |-> level,
     NAME |-> <<"N", objectid>>, TYPENAME |-> <<"t", level>>,
     ISACTUAL |-> actual, ISACTIVE |-> active]

\* an ITEM element of AS_MUN_HIERARCHY or AS_ADM_HIERARCHY
Item(objectid, parent, active) ==
    [OBJECTID |-> objectid, PARENTOBJID |-> parent, ISACTIVE |-> active]

\* a HOUSE element of AS_HOUSES
House(id, objectid, actual, active) ==
    [ID |-> id, OBJECTID |-> objectid, HOUSENUM |-> <<"5">>,
     ADDNUM1 |-> NullText, ADDNUM2 |-> <<"2">>,
     ISACTUAL |-> actual, ISACTIVE |-> active]

\* a STEAD element of AS_STEADS
Stead(id, objectid, actual, active) ==
    [ID |-> id, OBJECTID |-> objectid, NUMBER |-> <<"9">>,
     ISACTUAL |-> actual, ISACTIVE |-> active]

\* a PARAM element of AS_HOUSES_PARAMS
Param(objectid, typeid, value) ==
    [OBJECTID |-> objectid, TYPEID |-> typeid, VALUE |-> value]

\* a directory with one file per group
Directory(addr, mun, adm, hs, params, steads) ==
    [addr |-> <<addr>>, mun |-> <<mun>>, adm |-> <<adm>>, houses |-> <<hs>>,
     params |-> <<params>>, steads |-> <<steads>>]

\* the sequences over S of length at most n
RECURSIVE SeqsUpTo(_, _)
SeqsUpTo(S, n) ==
    IF n = 0
    THEN {<<>>}
    ELSE LET shorter == SeqsUpTo(S, n - 1)
         IN  shorter \cup {Append(q, x) : q \in shorter, x \in S}

\* Chains.  The house MaxId hangs under MaxId-1, that under MaxId-2, ... up
\* to object top; top has no parent (loop = 0) or closes a cycle onto the
\* object loop.  Every object of the chain has any level class or no level;
\* object MaxId-1 may be spelled with a leading zero in its OBJECT record
\* (rec), as the parent of the house (par) and as the child of its own edge
\* (key).
ChainLevels(i) == IF i % 2 = 1 THEN {"", "3", "5", "7"} ELSE {"", "4", "6", "8"}

Spelled(i, padded) == IF padded /\ i = MaxId - 1 THEN Padded(i) ELSE ToStr(i)

ChainDirectory(top, loop, lv, rec, par, key) ==
    Directory(
        [i \in 1..(MaxId - 1) |-> Object(i, Spelled(i, rec), lv[i], "1", "1")],
        [n \in 1..(MaxId - top) |->
            Item(Spelled(MaxId - n + 1, key), Spelled(MaxId - n, par), "1")]
          \o (IF loop = 0 THEN <<>>
              ELSE <<Item(Spelled(top, key), Spelled(loop, par), "1")>>),
        <<>>,
        <<House(1, ToStr(MaxId), "1", "1")>>,
        <<Param(ToStr(MaxId), "15", <<"7">>)>>,
        <<Stead(1, ToStr(MaxId), "1", "1")>>)

\* the level maps of the chain under top
ChainLevelMaps(top) ==
    {lv \in [1..(MaxId - 1) -> {"", "3", "4", "5", "6", "7", "8"}] :
        \A i \in 1..(MaxId - 1) :
            lv[i] \in (IF i < top THEN {""} ELSE ChainLevels(i))}

\* the state before main() on directory dir, at position at, in the
\* surroundings e and under the updater u: a database in which an earlier
\* import left a row in every table
StartIn(dir, e, u, at) ==
    /\ xml = dir
    /\ step = at
    /\ log = <<>>
    /\ run = 1
    /\ hierarchy_map = EmptyMap
    /\ level_map = EmptyMap
    /\ municipalities = [o \in {MaxId} |-> AddrRow(Object(0, ToStr(MaxId), "3", "1", "1"),
                                                   [parent_id |-> None]).columns]
    /\ settlements = EmptyTable
    /\ streets = EmptyTable
    /\ houses = [o \in {1} |-> [HouseRow(House(0, "1", "1", "1")).columns
                                    EXCEPT !.municipality_id = MaxId]]
    /\ land_plots = EmptyTable
    /\ uncommitted = FALSE
    /\ first_run = <<>>
    /\ counters = NoCounts
    /\ env = e
    /\ exit_code = NullNum
    /\ updater = u
    /\ w = [pc |-> "idle"]

\* the state main() starts from when the script is run from a terminal with
\* the database up and a user who presses Enter at the end
Start(dir) ==
    StartIn(dir, [db_up |-> TRUE, stdin |-> "line"], [pc |-> "none"], 0)

InitChain ==
    \E top \in 1..MaxId, rec \in BOOLEAN, par \in BOOLEAN, key \in BOOLEAN :
        \E loop \in {0} \cup top..MaxId, lv \in ChainLevelMaps(top) :
            Start(ChainDirectory(top, loop, lv, rec, par, key))

SpecChain == InitChain /\ [][Next]_vars

\* Edges.  Municipality 1, settlement 2, object 3 (a district of level 2 or
\* a second municipality) and house 4 under the settlement; each hierarchy
\* file holds up to MaxEdges ITEM records for the settlement, active or not,
\* with parent 1, 3 or none, and the edge of the house is in one of them.
EdgeItems == {Item("2", parent, active) : parent \in {"", "1", "3"},
                                          active \in {"0", "1"}}

EdgeDirectory(mun, adm, level3, house_in_mun) ==
    Directory(
        <<Object(1, "1", "4", "1", "1"), Object(2, "2", "6", "1", "1"),
          Object(3, "3", level3, "1", "1")>>,
        mun \o (IF house_in_mun THEN <<Item("4", "2", "1")>> ELSE <<>>),
        adm \o (IF house_in_mun THEN <<>> ELSE <<Item("4", "2", "1")>>),
        <<House(1, "4", "1", "1")>>,
        <<Param("4", "8", <<" ", "6", "6", ":", "0", "1", ":", "5", " ">>)>>,
        <<Stead(1, "4", "1", "1")>>)

InitEdges ==
    \E mun \in SeqsUpTo(EdgeItems, MaxEdges), adm \in SeqsUpTo(EdgeItems, MaxEdges),
       level3 \in {"2", "3"}, house_in_mun \in BOOLEAN :
        Start(EdgeDirectory(mun, adm, level3, house_in_mun))

SpecEdges == InitEdges /\ [][Next]_vars

\* Filters.  The address file holds up to MaxRecords OBJECT records for the
\* objects 1 and 2: active with any level, or with a flag cleared; house 3
\* and plot 3 hang under object 2 and carry any flags.
FilterLevels == {"", "1", "3", "4", "5", "6", "7", "8", "9"}

FilterObjects ==
    {[objectid |-> o, level |-> l, actual |-> "1", active |-> "1"] :
        o \in {"1", "2"}, l \in FilterLevels}
    \cup
    {[objectid |-> o, level |-> f[1], actual |-> f[2], active |-> f[3]] :
        o \in {"1", "2"},
        f \in {<<"3", "0", "1">>, <<"6", "1", "0">>, <<"7", "0", "0">>}}

FilterDirectory(objs, actual, active) ==
    Directory(
        [i \in 1..Len(objs) |-> Object(i, objs[i].objectid, objs[i].level,
                                       objs[i].actual, objs[i].active)],
        <<Item("2", "1", "1"), Item("3", "2", "1")>>,
        <<>>,
        <<House(1, "3", actual, active)>>,
        <<Param("3", "14", <<"1", "0", "0", "0", "0">>),
          Param("3", "14", <<"7", ".", "9">>)>>,
        <<Stead(1, "3", active, actual)>>)

InitFilter ==
    \E objs \in SeqsUpTo(FilterObjects, MaxRecords),
       actual \in {"0", "1"}, active \in {"0", "1"} :
        Start(FilterDirectory(objs, actual, active))

SpecFilter == InitFilter /\ [][Next]_vars

\* Addresses.  Municipality 1, settlement 2, street 3 and house 4 in one
\* municipal chain with at most one edge left out; every NAME and every house
\* number is absent, plain or padded with spaces.
NameTexts == {NullText, <<"M">>, <<" ", "M", " ">>}

NumberTexts == {NullText, <<"5">>, <<" ">>}

AddressDirectory(names, numbers, cut) ==
    Directory(
        [i \in 1..3 |->
            [Object(i, ToStr(i), ToStr(2 * i + 1), "1", "1") EXCEPT !.NAME = names[i]]],
        SelectSeq(<<Item("4", "3", "1"), Item("3", "2", "1"), Item("2", "1", "1")>>,
                  LAMBDA item : item.PARENTOBJID # cut),
        <<>>,
        <<[House(1, "4", "1", "1") EXCEPT !.HOUSENUM = numbers[1],
                                          !.ADDNUM1 = numbers[2],
                                          !.ADDNUM2 = numbers[3]]>>,
        <<>>,
        <<>>)

InitAddress ==
    \E names \in [1..3 -> NameTexts], numbers \in [1..3 -> NumberTexts],
       cut \in {"", "1", "2", "3"} :
        Start(AddressDirectory(names, numbers, cut))

SpecAddress == InitAddress /\ [][Next]_vars

\* Parameters.  House 3 and two PARAM records: the first for house 3 or for
\* an object that is no house, of any type; the second for house 3, of type
\* 8 or 14; their values are absent, empty, blank, numerals in and out of
\* the range, padded, fractional, signed, malformed, with and without a
\* colon, and longer than 100 characters.
ParamValues ==
    {NullText, <<>>, <<" ">>, <<"7">>, <<" ", "5", " ">>, <<"7", ".", "9">>,
     <<"1", "0", "0", "0">>, <<"1", "0", "0", "1">>, <<"1", "0", "0", "0", "0">>,
     <<"-", "1">>, <<"-", "0", ".", "5">>, <<"x">>, <<"1", ".", "2", ".", "3">>,
     <<".">>, <<":">>, <<" ", "6", "6", ":", "1", " ">>, <<"6", "6", "1">>,
     LongCadastral}

ParamsDirectory(first, second) ==
    Directory(<<>>, <<>>, <<>>, <<House(1, "3", "1", "1")>>, <<first, second>>, <<>>)

InitParams ==
    \E o1 \in {"3", "4"}, t1 \in {"8", "14", "15", "5"}, v1 \in ParamValues,
       t2 \in {"8", "14"}, v2 \in ParamValues :
        Start(ParamsDirectory(Param(o1, t1, v1), Param("3", t2, v2)))

SpecParams == InitParams /\ [][Next]_vars

\* Repeated records.  Municipality 1, house 3 and plot 3 are followed by a
\* second record each, in the same file or in a second file: the second
\* OBJECT has the OBJECTID 1 (also spelled 01) or 2, a level of the same
\* class or of another one, and the ID 1 or 2; the second HOUSE and the
\* second STEAD likewise.  Records of one object differ in a column.
Files(first, second, split) ==
    IF split THEN <<<<first>>, <<second>>>> ELSE <<<<first, second>>>>

RepeatDirectory(obj, house, stead, split) ==
    [addr   |-> Files(Object(1, "1", "3", "1", "1"),
                      Object(obj.id, obj.objectid, obj.level, "1", "1"), split),
     mun    |-> <<<<Item("3", "1", "1"), Item("4", "2", "1")>>>>,
     adm    |-> <<>>,
     houses |-> Files(House(1, "3", "1", "1"),
                      [House(house.id, house.objectid, "1", "1")
                          EXCEPT !.HOUSENUM = <<"6">>], split),
     params |-> <<>>,
     steads |-> Files(Stead(1, "3", "1", "1"),
                      [Stead(stead.id, stead.objectid, "1", "1")
                          EXCEPT !.NUMBER = <<"8">>], split)]

InitRepeat ==
    \E obj \in [id : {1, 2}, objectid : {"1", "01", "2"}, level : {"3", "4", "5"}],
       house \in [id : {1, 2}, objectid : {"3", "03", "4"}],
       stead \in [id : {1, 2}, objectid : {"3", "4"}],
       split \in BOOLEAN :
        Start(RepeatDirectory(obj, house, stead, split))

SpecRepeat == InitRepeat /\ [][Next]_vars

\* Missing files.  Municipality 1, settlement 2, house 3 and plot 3 in one
\* municipal chain; the directory holds the files of any of the six groups
\* and none of the others.
FileGroups == {"addr", "mun", "adm", "houses", "params", "steads"}

MissingDirectory(found) ==
    LET whole == Directory(
                     <<Object(1, "1", "3", "1", "1"), Object(2, "2", "5", "1", "1")>>,
                     <<Item("2", "1", "1"), Item("3", "2", "1")>>,
                     <<Item("3", "2", "1")>>,
                     <<House(1, "3", "1", "1")>>,
                     <<Param("3", "15", <<"9">>)>>,
                     <<Stead(1, "3", "1", "1")>>)
    IN  [group \in FileGroups |-> IF group \in found THEN whole[group] ELSE <<>>]

InitMissing == \E found \in SUBSET FileGroups : Start(MissingDirectory(found))

SpecMissing == InitMissing /\ [][Next]_vars

Init == InitChain \/ InitEdges \/ InitFilter

Spec == Init /\ [][Next]_vars

(***************************************************************************)
(* A run stopped from the keyboard.  The parser has no stop flag and no     *)
(* signal handler: SIGINT raises KeyboardInterrupt inside the running      *)
(* phase.                                                                  *)
(***************************************************************************)
\* the batches a phase writes before its commit: one per file of its group
BatchesOf(phase) ==
    CASE phase = "process_addr_objects" -> Len(xml.addr)
      [] phase = "process_houses"       -> Len(xml.houses)
      [] phase = "process_land_plots"   -> Len(xml.steads)
      [] OTHER                          -> 0

\* the log entry of a KeyboardInterrupt raised after the phase wrote k batches
Interrupted(k) ==
    "KeyboardInterrupt after batch " \o (IF k = 0 THEN "0" ELSE ToStr(k))

\* KeyboardInterrupt in the running phase, before its commit and after it
\* wrote written batches: `except Exception` in main() does not catch it,
\* `finally: parser.close()` closes the connection and with it the
\* transaction of the phase, and the script prints that the user stopped it
Interrupt ==
    /\ step \in 1..Len(MainSteps)
    /\ \E written \in 0..BatchesOf(MainSteps[step]) :
          log' = Append(log, Interrupted(written))
    /\ step' = Len(MainSteps) + 2
    /\ uncommitted' = FALSE
    /\ UNCHANGED <<xml, run, hierarchy_map, level_map, tables, first_run,
                   counters, w, host>>

NextInterrupt == Next \/ Interrupt

\* the directories with repeated records in which no two rows share an ID
InitInterrupt ==
    \E obj \in [id : {2}, objectid : {"1", "01", "2"}, level : {"3", "4", "5"}],
       house \in [id : {2}, objectid : {"3", "03", "4"}],
       stead \in [id : {2}, objectid : {"3", "4"}],
       split \in BOOLEAN :
        Start(RepeatDirectory(obj, house, stead, split))

SpecInterrupt == InitInterrupt /\ [][NextInterrupt]_vars

(***************************************************************************)
(* The updater, fias_console_updater.py: check_and_update runs the parser  *)
(* as a child process and records the version it installed.                *)
(***************************************************************************)
\* check_and_update up to the start of the child: it returns True when the
\* installed version is the latest and force is off; it returns False when
\* the download, the extraction, the backup or the copy fails; else
\* update_database starts fias_parser.py with subprocess.run, which hands
\* the child the stdin of the updater
CheckAndUpdate ==
    /\ updater.pc = "check_and_update"
    /\ IF ~ updater.force /\ updater.current_version = updater.latest_version
       THEN /\ updater' = [updater EXCEPT !.pc = "returned True"]
            /\ UNCHANGED step
       ELSE IF ~ env.files_ok
       THEN /\ updater' = [updater EXCEPT !.pc = "returned False"]
            /\ UNCHANGED step
       ELSE /\ updater' = [updater EXCEPT !.pc = "subprocess.run"]
            /\ step' = 0
    /\ UNCHANGED <<xml, log, run, hierarchy_map, level_map, tables, uncommitted,
                   first_run, counters, env, exit_code, w>>

\* subprocess.run returns the exit code of the child, or raises
\* TimeoutExpired after an hour when the child waits in input(); with the
\* code 0 update_database returns True and check_and_update calls
\* save_current_version(latest_version); otherwise both return False
UpdateDatabase ==
    /\ updater.pc = "subprocess.run"
    /\ \/ Exited
       \/ (Finished \/ Aborted) /\ env.stdin = "silent"
    /\ IF Exited /\ exit_code = 0
       THEN updater' = [updater EXCEPT !.pc = "returned True",
                                       !.current_version = updater.latest_version,
                                       !.saved = TRUE]
       ELSE updater' = [updater EXCEPT !.pc = "returned False"]
    /\ step' = Len(MainSteps) + 3
    /\ UNCHANGED <<xml, log, run, hierarchy_map, level_map, tables, uncommitted,
                   first_run, counters, env, exit_code, w>>

NextUpdater == Next \/ CheckAndUpdate \/ UpdateDatabase

\* the directories of an update: every group present, no AS_HOUSES file, or
\* two HOUSE records with one ID; the database up or down; the stdin of the
\* updater a terminal with or without a user, or closed; the installed
\* version none, old or the latest
UpdateDirectories ==
    {MissingDirectory(FileGroups), MissingDirectory(FileGroups \ {"houses"}),
     RepeatDirectory([id |-> 2, objectid |-> "2", level |-> "5"],
                     [id |-> 1, objectid |-> "4"],
                     [id |-> 2, objectid |-> "4"], TRUE)}

InitUpdater ==
    \E dir \in UpdateDirectories,
       e \in [db_up : BOOLEAN, stdin : {"line", "eof", "silent"}, files_ok : BOOLEAN],
       current \in {"", "v1", "v2"}, force \in BOOLEAN :
        StartIn(dir, e,
                [pc |-> "check_and_update", current_version |-> current,
                 latest_version |-> "v2", force |-> force, saved |-> FALSE],
                Len(MainSteps) + 3)

SpecUpdater == InitUpdater /\ [][NextUpdater]_vars

\* check_and_update call by call.  Each step returns its value ("ok"), a
\* falsy value or False ("fails"), or raises; save_current_version catches
\* its own write error.  updater.calls lists the steps called so far.
StepOrder ==
    <<"get_version_info", "download_update", "extract_archive",
      "backup_current_data", "apply_update", "update_database",
      "save_current_version">>

\* `if not x: return False` after a call, and the outer except
RunStep(name, next) ==
    /\ updater.pc = name
    /\ updater' = [updater EXCEPT !.calls = Append(@, name),
                                  !.pc = IF env.outcome[name] = "ok" THEN next
                                         ELSE "returned False"]
    /\ UNCHANGED <<xml, step, log, run, hierarchy_map, level_map, tables,
                   uncommitted, first_run, counters, env, exit_code, w>>

GetVersionInfo == RunStep("get_version_info", "get_current_version")

\* get_current_version, the test of force and of the two versions, and the
\* choice of the URL
GetCurrentVersion ==
    /\ updater.pc = "get_current_version"
    /\ updater' = [updater EXCEPT !.pc =
          IF ~ updater.force /\ updater.current_version = updater.latest_version
          THEN "returned True"
          ELSE IF ~ env.url THEN "returned False"
          ELSE "download_update"]
    /\ UNCHANGED <<xml, step, log, run, hierarchy_map, level_map, tables,
                   uncommitted, first_run, counters, env, exit_code, w>>

DownloadUpdate == RunStep("download_update", "extract_archive")

ExtractArchive == RunStep("extract_archive", "backup_current_data")

BackupCurrentData == RunStep("backup_current_data", "apply_update")

ApplyUpdate == RunStep("apply_update", "update_database")

UpdateDatabaseStep == RunStep("update_database", "save_current_version")

\* save_current_version logs a write error and returns; check_and_update
\* goes on to cleanup_old_files and returns True
SaveCurrentVersion ==
    /\ updater.pc = "save_current_version"
    /\ updater' = [updater EXCEPT
          !.calls = Append(@, "save_current_version"),
          !.current_version = IF env.outcome["save_current_version"] = "ok"
                              THEN updater.latest_version ELSE @,
          !.pc = "returned True"]
    /\ UNCHANGED <<xml, step, log, run, hierarchy_map, level_map, tables,
                   uncommitted, first_run, counters, env, exit_code, w>>

NextSteps ==
    \/ GetVersionInfo \/ GetCurrentVersion \/ DownloadUpdate \/ ExtractArchive
    \/ BackupCurrentData \/ ApplyUpdate \/ UpdateDatabaseStep
    \/ SaveCurrentVersion

\* the outcomes of the steps and the presence of the URL; the installed
\* version none, old or the latest; forced or not
InitSteps ==
    \E outcome \in [SeqToSet(StepOrder) -> {"ok", "fails", "raises"}],
       url \in BOOLEAN, current \in {"", "v1", "v2"}, force \in BOOLEAN :
        /\ outcome["save_current_version"] # "raises"
        /\ StartIn(MissingDirectory(FileGroups),
                   [outcome |-> outcome, url |-> url],
                   [pc |-> "get_version_info", current_version |-> current,
                    installed |-> current, latest_version |-> "v2",
                    force |-> force, calls |-> <<>>],
                   Len(MainSteps) + 3)

SpecSteps == InitSteps /\ [][NextSteps]_vars

(***************************************************************************)
(* A second run of the pipeline on the same directory.                     *)
(***************************************************************************)
\* main() is started again: a new FIASParser on the database the first run
\* left behind
Rerun ==
    /\ Exited
    /\ run = 1
    /\ run' = 2
    /\ step' = 0
    /\ log' = <<>>
    /\ hierarchy_map' = EmptyMap
    /\ level_map' = EmptyMap
    /\ first_run' = tables
    /\ exit_code' = NullNum
    /\ UNCHANGED <<xml, tables, uncommitted, counters, env, updater, w>>

NextRerun == Next \/ Rerun

InitRerun == InitEdges \/ InitFilter

SpecRerun == InitRerun /\ [][NextRerun]_vars

(***************************************************************************)
(* One resolver call, statement by statement, on any index over the        *)
(* objects 1..MaxWalkId.  The call starts from object 1 (any start is      *)
(* object 1 under a renaming) or from None.                                *)
(***************************************************************************)
WalkIds == {ToStr(i) : i \in 1..MaxWalkId}

\* the dicts with keys in K and values in V
Dicts(K, V) == UNION {[D -> V] : D \in SUBSET K}

\* find_parent_by_level entering the loop without the test of the object's
\* own level
FplEnterNoSelfTest ==
    /\ w.pc = "call" /\ w.fn = "find_parent_by_level"
    /\ w' = IF w.objectid = None
            THEN [w EXCEPT !.pc = "returned", !.result = None]
            ELSE [w EXCEPT !.pc = "loop", !.current_id = ToStr(w.objectid),
                           !.visited = {}]
    /\ UNCHANGED <<xml, step, log, run, hierarchy_map, level_map, tables,
                   uncommitted, first_run, counters, host>>

\* find_parent_by_level up to the loop
FplEnter ==
    /\ w.pc = "call" /\ w.fn = "find_parent_by_level"
    /\ w' = IF w.objectid = None
            THEN [w EXCEPT !.pc = "returned", !.result = None]
            ELSE LET objectid_str == ToStr(w.objectid)
                 IN  IF LevelOf(objectid_str) \in w.target_levels
                     THEN [w EXCEPT !.pc = "returned",
                                    !.result = ToInt(objectid_str)]
                     ELSE [w EXCEPT !.pc = "loop", !.current_id = objectid_str,
                                    !.visited = {}]
    /\ UNCHANGED <<xml, step, log, run, hierarchy_map, level_map, tables,
                   uncommitted, first_run, counters, host>>

\* the loop of find_parent_by_level without the visited test
FplIterateNoVisitedTest ==
    /\ w.pc = "loop" /\ w.fn = "find_parent_by_level"
    /\ w' = IF w.current_id = ""
            THEN [w EXCEPT !.pc = "returned", !.result = None]
            ELSE IF w.current_id \in DOMAIN hierarchy_map
            THEN LET parent_id == hierarchy_map[w.current_id]
                 IN  IF LevelOf(parent_id) \in w.target_levels
                     THEN [w EXCEPT !.pc = "returned",
                                    !.visited = @ \cup {w.current_id},
                                    !.added = Append(@, w.current_id),
                                    !.result = ToInt(parent_id)]
                     ELSE [w EXCEPT !.visited = @ \cup {w.current_id},
                                    !.added = Append(@, w.current_id),
                                    !.current_id = parent_id]
            ELSE [w EXCEPT !.pc = "returned",
                           !.visited = @ \cup {w.current_id},
                           !.added = Append(@, w.current_id),
                           !.result = None]
    /\ UNCHANGED <<xml, step, log, run, hierarchy_map, level_map, tables,
                   uncommitted, first_run, counters, host>>

\* the loop test and one iteration of the loop of find_parent_by_level
FplIterate ==
    /\ w.pc = "loop" /\ w.fn = "find_parent_by_level"
    /\ w' = IF w.current_id = "" \/ w.current_id \in w.visited
            THEN [w EXCEPT !.pc = "returned", !.result = None]
            ELSE IF w.current_id \in DOMAIN hierarchy_map
            THEN LET parent_id == hierarchy_map[w.current_id]
                 IN  IF LevelOf(parent_id) \in w.target_levels
                     THEN [w EXCEPT !.pc = "returned",
                                    !.visited = @ \cup {w.current_id},
                                    !.added = Append(@, w.current_id),
                                    !.result = ToInt(parent_id)]
                     ELSE [w EXCEPT !.visited = @ \cup {w.current_id},
                                    !.added = Append(@, w.current_id),
                                    !.current_id = parent_id]
            ELSE [w EXCEPT !.pc = "returned",
                           !.visited = @ \cup {w.current_id},
                           !.added = Append(@, w.current_id),
                           !.result = None]
    /\ UNCHANGED <<xml, step, log, run, hierarchy_map, level_map, tables,
                   uncommitted, first_run, counters, host>>

\* find_mo_parent entering the loop without the test of the object's own
\* level
MoEnterNoSelfTest ==
    /\ w.pc = "call" /\ w.fn = "find_mo_parent"
    /\ w' = IF w.objectid = None
            THEN [w EXCEPT !.pc = "returned", !.result = None]
            ELSE [w EXCEPT !.pc = "loop", !.current_id = ToStr(w.objectid),
                           !.visited = {}]
    /\ UNCHANGED <<xml, step, log, run, hierarchy_map, level_map, tables,
                   uncommitted, first_run, counters, host>>

\* find_mo_parent up to the loop
MoEnter ==
    /\ w.pc = "call" /\ w.fn = "find_mo_parent"
    /\ w' = IF w.objectid = None
            THEN [w EXCEPT !.pc = "returned", !.result = None]
            ELSE LET objectid_str == ToStr(w.objectid)
                 IN  IF LevelOf(objectid_str) \in {"3", "4"}
                     THEN [w EXCEPT !.pc = "returned",
                                    !.result = ToInt(objectid_str)]
                     ELSE [w EXCEPT !.pc = "loop", !.current_id = objectid_str,
                                    !.visited = {}]
    /\ UNCHANGED <<xml, step, log, run, hierarchy_map, level_map, tables,
                   uncommitted, first_run, counters, host>>

\* the loop test and one iteration of the loop of find_mo_parent
MoIterate ==
    /\ w.pc = "loop" /\ w.fn = "find_mo_parent"
    /\ w' = IF w.current_id = "" \/ w.current_id \in w.visited
            THEN [w EXCEPT !.pc = "returned", !.result = None]
            ELSE IF w.current_id \in DOMAIN hierarchy_map
            THEN LET parent_id == hierarchy_map[w.current_id]
                 IN  IF LevelOf(parent_id) \in {"3", "4"}
                     THEN [w EXCEPT !.pc = "returned",
                                    !.visited = @ \cup {w.current_id},
                                    !.added = Append(@, w.current_id),
                                    !.result = ToInt(parent_id)]
                     ELSE [w EXCEPT !.visited = @ \cup {w.current_id},
                                    !.added = Append(@, w.current_id),
                                    !.current_id = parent_id]
            ELSE [w EXCEPT !.pc = "returned",
                           !.visited = @ \cup {w.current_id},
                           !.added = Append(@, w.current_id),
                           !.result = None]
    /\ UNCHANGED <<xml, step, log, run, hierarchy_map, level_map, tables,
                   uncommitted, first_run, counters, host>>

NextWalk == FplEnter \/ FplIterate \/ MoEnter \/ MoIterate

\* a call of either resolver on a loaded index; no pipeline is running
InitWalk ==
    /\ xml = Directory(<<>>, <<>>, <<>>, <<>>, <<>>, <<>>)
    /\ step = 0
    /\ log = <<>>
    /\ run = 1
    /\ hierarchy_map \in Dicts(WalkIds, WalkIds)
    /\ level_map \in Dicts(WalkIds, {"4", "6"})
    /\ municipalities = EmptyTable
    /\ settlements = EmptyTable
    /\ streets = EmptyTable
    /\ houses = EmptyTable
    /\ land_plots = EmptyTable
    /\ uncommitted = FALSE
    /\ first_run = <<>>
    /\ counters = NoCounts
    /\ env = [db_up |-> TRUE, stdin |-> "line"]
    /\ exit_code = NullNum
    /\ updater = [pc |-> "none"]
    /\ \E objectid \in {None, 1},
          call \in {<<"find_parent_by_level", {"3", "4"}>>,
                    <<"find_parent_by_level", {"5", "6"}>>,
                    <<"find_mo_parent", {"3", "4"}>>} :
            w = [pc |-> "call", fn |-> call[1], objectid |-> objectid,
                 target_levels |-> call[2], current_id |-> "", visited |-> {},
                 added |-> <<>>, result |-> None]

SpecWalk == InitWalk /\ [][NextWalk]_vars

\* The index under its readers: the phases of main() on the edge family, and
\* the statements of the two resolvers on every small index.
NextIndex == Next \/ NextWalk

InitIndex == InitEdges \/ InitWalk

SpecIndex == InitIndex /\ [][NextIndex]_vars

(***************************************************************************)
(* The batch loops, statement by statement, with the threshold a parameter *)
(* of the loop (batch_size in the stagers, 1000 in the house linker).      *)
(***************************************************************************)
MaxThreshold == 3
MaxBatchRecords == 3
MaxFiles == 2

\* the tables a stager writes, by name
StagingTables ==
    [municipalities |-> municipalities, settlements |-> settlements,
     streets |-> streets, houses |-> houses]

\* the order of the flush tests of process_addr_objects
BatchOrder == <<"municipalities", "settlements", "streets", "houses">>

\* the batch an element is appended to: none when the flags fail, "other"
\* for a level without table
BatchName(fn, attr) ==
    IF ~IsActiveRecord(attr) THEN "none"
    ELSE IF fn = "process_houses" THEN "houses"
    ELSE IF attr.LEVEL \in {"3", "4"} THEN "municipalities"
    ELSE IF attr.LEVEL \in {"5", "6"} THEN "settlements"
    ELSE IF attr.LEVEL \in {"7", "8"} THEN "streets"
    ELSE "other"

\* the tuple appended to the batch
BatchRow(fn, attr) ==
    IF fn = "process_houses" THEN HouseRow(attr)
    ELSE IF attr.LEVEL \in {"3", "4"} THEN AddrRow(attr, [parent_id |-> None])
    ELSE IF attr.LEVEL \in {"5", "6"} THEN AddrRow(attr, [municipality_id |-> None])
    ELSE AddrRow(attr, [settlement_id |-> None, municipality_id |-> None])

\* municipalities_batch = [] ... or batch_data = []
NoBatches(fn) ==
    IF fn = "process_houses"
    THEN [houses |-> <<>>]
    ELSE [municipalities |-> <<>>, settlements |-> <<>>, streets |-> <<>>]

\* the insert_..._batch calls of the batches `names`, in the order of the code
BatchCalls(batches, names) ==
    LET order == SelectSeq(BatchOrder, LAMBDA n : n \in names)
    IN  [i \in 1..Len(order) |-> [table |-> order[i], rows |-> batches[order[i]]]]

\* the tables after those calls
Flushed(batches, names) ==
    /\ municipalities' = IF "municipalities" \in names
                         THEN InsertBatch(municipalities, batches["municipalities"])
                         ELSE municipalities
    /\ settlements' = IF "settlements" \in names
                      THEN InsertBatch(settlements, batches["settlements"])
                      ELSE settlements
    /\ streets' = IF "streets" \in names
                  THEN InsertBatch(streets, batches["streets"])
                  ELSE streets
    /\ houses' = IF "houses" \in names
                 THEN InsertBatch(houses, batches["houses"])
                 ELSE houses
    /\ uncommitted' = (uncommitted \/ names # {})

\* for file_path in files: the batches are created empty
StagerOpenFile ==
    /\ w.pc = "files" /\ w.files # <<>>
    /\ w' = [w EXCEPT !.pc = "records", !.records = Head(w.files),
                      !.files = Tail(w.files), !.batches = NoBatches(w.fn)]
    /\ UNCHANGED <<xml, step, log, run, hierarchy_map, level_map, tables,
                   uncommitted, first_run, counters, host>>

\* one element: the append, then the flush tests against the threshold
StagerRead ==
    /\ w.pc = "records" /\ w.records # <<>>
    /\ LET attr   == Head(w.records)
           name   == BatchName(w.fn, attr)
           filled == IF name \in DOMAIN w.batches
                     THEN [w.batches EXCEPT ![name] = Append(@, BatchRow(w.fn, attr))]
                     ELSE w.batches
           full   == {n \in DOMAIN filled : Len(filled[n]) >= w.threshold}
           raised == \E n \in full : BatchRaises(StagingTables[n], filled[n])
       IN  /\ w' = [w EXCEPT !.records = Tail(w.records),
                             !.read = Append(@, attr),
                             !.batches = [n \in DOMAIN filled |->
                                             IF n \in full THEN <<>> ELSE filled[n]],
                             !.calls = @ \o BatchCalls(filled, full),
                             !.pc = IF raised THEN "raised" ELSE @]
           /\ IF raised
              THEN UNCHANGED <<tables, uncommitted>>
              ELSE Flushed(filled, full) /\ UNCHANGED land_plots
           /\ counters' = IF w.fn = "process_addr_objects" /\ name # "none"
                          THEN [counters EXCEPT ![name] = @ + 1]
                          ELSE counters
    /\ UNCHANGED <<xml, step, log, run, hierarchy_map, level_map, first_run,
                   host>>

\* the stager's end of file with the remainders left in the lists
StagerEndOfFileNoRemainders ==
    /\ w.pc = "records" /\ w.records = <<>>
    /\ w' = [w EXCEPT !.pc = "files", !.batches = NoBatches(w.fn)]
    /\ UNCHANGED <<xml, step, log, run, hierarchy_map, level_map, tables,
                   uncommitted, first_run, counters, host>>

\* the end of a file: the remainders
StagerEndOfFile ==
    /\ w.pc = "records" /\ w.records = <<>>
    /\ LET rest   == {n \in DOMAIN w.batches : w.batches[n] # <<>>}
           raised == \E n \in rest : BatchRaises(StagingTables[n], w.batches[n])
       IN  /\ w' = [w EXCEPT !.pc = IF raised THEN "raised" ELSE "files",
                             !.batches = NoBatches(w.fn),
                             !.calls = @ \o BatchCalls(w.batches, rest)]
           /\ IF raised
              THEN UNCHANGED <<tables, uncommitted>>
              ELSE Flushed(w.batches, rest) /\ UNCHANGED land_plots
    /\ UNCHANGED <<xml, step, log, run, hierarchy_map, level_map, first_run,
                   counters, host>>

\* self.connection.commit() after the last file
StagerCommit ==
    /\ w.pc = "files" /\ w.files = <<>>
    /\ w' = [w EXCEPT !.pc = "returned"]
    /\ uncommitted' = FALSE
    /\ UNCHANGED <<xml, step, log, run, hierarchy_map, level_map, tables,
                   first_run, counters, host>>

\* the tuple (street_id, settlement_id, mo_id, house_id) of a house
HouseUpdate(house_id) ==
    [street_id     |-> FindParentByLevel(house_id, {"7", "8"}),
     settlement_id |-> FindParentByLevel(house_id, {"5", "6"}),
     mo_id         |-> FindMoParent(house_id),
     house_id      |-> house_id]

Resolved(u) == u.street_id # None \/ u.settlement_id # None \/ u.mo_id # None

\* execute_house_updates_batch: UPDATE houses SET street_id = %s,
\* settlement_id = %s, municipality_id = %s WHERE objectid = %s, row by row
RECURSIVE ExecuteHouseUpdatesBatch(_, _)
ExecuteHouseUpdatesBatch(table, batch_updates) ==
    IF batch_updates = <<>>
    THEN table
    ELSE LET u == Head(batch_updates)
         IN  ExecuteHouseUpdatesBatch(
                 IF u.house_id \in DOMAIN table
                 THEN [table EXCEPT ![u.house_id] =
                          [@ EXCEPT !.street_id = u.street_id,
                                    !.settlement_id = u.settlement_id,
                                    !.municipality_id = u.mo_id]]
                 ELSE table,
                 Tail(batch_updates))

\* one house of link_houses_to_hierarchy_fixed: the lookups, the append, the
\* flush test and the commit every 10000 houses
LinkVisit ==
    /\ w.pc = "houses" /\ w.records # <<>>
    /\ LET u      == HouseUpdate(Head(w.records))
           filled == IF Resolved(u) THEN Append(w.batches, u) ELSE w.batches
           full   == Len(filled) >= w.threshold
           processed == w.processed + 1
       IN  /\ w' = [w EXCEPT !.records = Tail(w.records),
                             !.read = Append(@, Head(w.records)),
                             !.processed = processed,
                             !.batches = IF full THEN <<>> ELSE filled,
                             !.calls = IF full
                                       THEN Append(@, [table |-> "houses",
                                                       rows |-> filled])
                                       ELSE @]
           /\ houses' = IF full THEN ExecuteHouseUpdatesBatch(houses, filled)
                        ELSE houses
           /\ uncommitted' = IF processed % 10000 = 0 THEN FALSE
                             ELSE (uncommitted \/ full)
    /\ UNCHANGED <<xml, step, log, run, hierarchy_map, level_map,
                   municipalities, settlements, streets, land_plots, first_run,
                   counters, host>>

\* after the loop: the remainder, the commit, and the diagnostic dividing by
\* the number of houses
LinkEnd ==
    /\ w.pc = "houses" /\ w.records = <<>>
    /\ w' = [w EXCEPT !.pc = IF DOMAIN houses = {} THEN "raised" ELSE "returned",
                      !.batches = <<>>,
                      !.calls = IF w.batches # <<>>
                                THEN Append(@, [table |-> "houses",
                                                rows |-> w.batches])
                                ELSE @]
    /\ houses' = ExecuteHouseUpdatesBatch(houses, w.batches)
    /\ uncommitted' = FALSE
    /\ UNCHANGED <<xml, step, log, run, hierarchy_map, level_map,
                   municipalities, settlements, streets, land_plots, first_run,
                   counters, host>>

NextBatch ==
    \/ StagerOpenFile \/ StagerRead \/ StagerEndOfFile \/ StagerCommit
    \/ LinkVisit \/ LinkEnd

\* the elements of the files: two municipalities and a settlement; two
\* houses and a house that is not active
BatchObjects ==
    {Object(1, "1", "4", "1", "1"), Object(2, "2", "4", "1", "1"),
     Object(3, "3", "6", "1", "1")}

BatchHouses ==
    {House(1, "1", "1", "1"), House(2, "2", "1", "1"), House(3, "3", "1", "0")}

\* one to MaxFiles files of up to MaxBatchRecords elements
BatchFiles(elements) ==
    SeqsUpTo(SeqsUpTo(elements, MaxBatchRecords), MaxFiles) \ {<<>>}

\* the orders in which SELECT objectid FROM houses can return the set S
Orders(S) == {q \in SeqsUpTo(S, Cardinality(S)) : SeqToSet(q) = S}

\* a stager at its file loop, on empty tables
InitStager(fn, threshold, files) ==
    /\ xml = [addr |-> IF fn = "process_addr_objects" THEN files ELSE <<>>,
              mun |-> <<>>, adm |-> <<>>,
              houses |-> IF fn = "process_houses" THEN files ELSE <<>>,
              params |-> <<>>, steads |-> <<>>]
    /\ hierarchy_map = EmptyMap
    /\ level_map = EmptyMap
    /\ houses = EmptyTable
    /\ w = [pc |-> "files", fn |-> fn, threshold |-> threshold, files |-> files,
            records |-> <<>>, read |-> <<>>, batches |-> NoBatches(fn),
            calls |-> <<>>]

\* the linker at its loop: houses 1..3 staged or not, each under nothing,
\* under the municipality 4 or under the settlement 5 of municipality 4
InitLinker(threshold) ==
    /\ xml = [addr |-> <<>>, mun |-> <<>>, adm |-> <<>>, houses |-> <<>>,
              params |-> <<>>, steads |-> <<>>]
    /\ \E hm \in Dicts({"1", "2", "3"}, {"4", "5"}) :
          hierarchy_map = Put(hm, "5", "4")
    /\ level_map = Put(Put(EmptyMap, "4", "4"), "5", "6")
    /\ \E S \in SUBSET {1, 2, 3} :
          /\ houses = [o \in S |-> HouseRow(House(o, ToStr(o), "1", "1")).columns]
          /\ \E all_houses \in Orders(S) :
                w = [pc |-> "houses", fn |-> "link_houses_to_hierarchy_fixed",
                     threshold |-> threshold, records |-> all_houses,
                     read |-> <<>>, processed |-> 0, batches |-> <<>>,
                     calls |-> <<>>, before |-> houses]

InitBatch ==
    /\ step = 0
    /\ log = <<>>
    /\ run = 1
    /\ municipalities = EmptyTable
    /\ settlements = EmptyTable
    /\ streets = EmptyTable
    /\ land_plots = EmptyTable
    /\ uncommitted = FALSE
    /\ first_run = <<>>
    /\ counters = NoCounts
    /\ env = [db_up |-> TRUE, stdin |-> "line"]
    /\ exit_code = NullNum
    /\ updater = [pc |-> "none"]
    /\ \E threshold \in 1..MaxThreshold :
          \/ \E files \in BatchFiles(BatchObjects) :
                InitStager("process_addr_objects", threshold, files)
          \/ \E files \in BatchFiles(BatchHouses) :
                InitStager("process_houses", threshold, files)
          \/ InitLinker(threshold)

SpecBatch == InitBatch /\ [][NextBatch]_vars

(***************************************************************************)
(* process_house_params, PARAM by PARAM.                                   *)
(***************************************************************************)
\* one PARAM element: the UPDATE if the value is accepted, and the commit
\* every 100000 elements
ParamRead ==
    /\ w.pc = "params" /\ w.records # <<>>
    /\ w' = [w EXCEPT !.records = Tail(w.records),
                      !.read = Append(@, Head(w.records)),
                      !.processed = @ + 1]
    /\ houses' = AppliedParam(houses, Head(w.records))
    /\ uncommitted' = IF (w.processed + 1) % 100000 = 0 THEN FALSE
                      ELSE (uncommitted \/ houses' # houses)
    /\ UNCHANGED <<xml, step, log, run, hierarchy_map, level_map,
                   municipalities, settlements, streets, land_plots, first_run,
                   counters, host>>

\* self.connection.commit() after the last file
ParamsCommit ==
    /\ w.pc = "params" /\ w.records = <<>>
    /\ w' = [w EXCEPT !.pc = "returned"]
    /\ uncommitted' = FALSE
    /\ UNCHANGED <<xml, step, log, run, hierarchy_map, level_map, tables,
                   first_run, counters, host>>

NextStream == ParamRead \/ ParamsCommit

\* values: absent, accepted numerals, a numeral out of range, a malformed
\* one, and two accepted cadastral numbers
StreamValues ==
    {NullText, <<"7">>, <<" ", "5", " ">>, <<"1", "0", "0", "1">>, <<"x">>,
     <<":">>, <<" ", "6", "6", ":", "1", " ">>}

\* three PARAM elements: the first for house 3 or for object 4, which is no
\* house, of a mapped type or of type 5; the others for house 3
StreamRecords ==
    {<<Param(o1, t1, v1), Param("3", t2, v2), Param("3", t3, v3)>> :
        o1 \in {"3", "4"}, t1 \in {"8", "14", "15", "5"}, v1 \in StreamValues,
        t2 \in {"8", "14", "15", "5"}, v2 \in StreamValues,
        t3 \in {"8", "14"}, v3 \in StreamValues}

\* house 3 staged and linked, the parameter phase at its first element
InitStream ==
    /\ step = 0
    /\ log = <<>>
    /\ run = 1
    /\ hierarchy_map = EmptyMap
    /\ level_map = EmptyMap
    /\ municipalities = EmptyTable
    /\ settlements = EmptyTable
    /\ streets = EmptyTable
    /\ land_plots = EmptyTable
    /\ houses = Put(EmptyTable, 3,
                    [HouseRow(House(1, "3", "1", "1")).columns
                        EXCEPT !.street_id = 2, !.settlement_id = 1])
    /\ uncommitted = FALSE
    /\ first_run = <<>>
    /\ counters = NoCounts
    /\ env = [db_up |-> TRUE, stdin |-> "line"]
    /\ exit_code = NullNum
    /\ updater = [pc |-> "none"]
    /\ \E records \in StreamRecords :
          /\ xml = Directory(<<>>, <<>>, <<>>, <<House(1, "3", "1", "1")>>,
                             records, <<>>)
          /\ w = [pc |-> "params", fn |-> "process_house_params",
                  records |-> records, read |-> <<>>, processed |-> 0,
                  before |-> houses]

SpecStream == InitStream /\ [][NextStream]_vars

(***************************************************************************)
(* Properties.                                                             *)
(***************************************************************************)
\* main() has returned from `phase` in this run
Done(phase) == phase \in SeqToSet(log)

\* the parents the active MUN edges with a parent give to child
MunParents(child) ==
    {r.PARENTOBJID : r \in {x \in SeqToSet(Records(xml.mun)) :
                               /\ x.OBJECTID = child /\ x.ISACTIVE = "1"
                               /\ x.PARENTOBJID # ""}}

\* the parents the active ADM edges with a parent give to child
AdmParents(child) ==
    {r.PARENTOBJID : r \in {x \in SeqToSet(Records(xml.adm)) :
                               /\ x.OBJECTID = child /\ x.ISACTIVE = "1"
                               /\ x.PARENTOBJID # ""}}

MunChildren ==
    {r.OBJECTID : r \in {x \in SeqToSet(Records(xml.mun)) :
                            x.OBJECTID # "" /\ MunParents(x.OBJECTID) # {}}}

\* C1 (municipal priority): once load_hierarchy_and_levels has returned,
\* every child with an active MUN edge to a non-empty parent is mapped by
\* hierarchy_map to the parent of one of its MUN edges, whatever ADM edges
\* it has; and once build_hierarchy_links_fixed has returned, a settlement
\* whose MUN parent is a municipality of level 3 or 4 carries that parent
\* as municipality_id, also when its ADM parent is another object.
C1_MunicipalPriority ==
    /\ Done("load_hierarchy_and_levels") =>
          \A child \in MunChildren :
              /\ child \in DOMAIN hierarchy_map
              /\ hierarchy_map[child] \in MunParents(child)
    /\ Done("build_hierarchy_links_fixed") =>
          \A s \in DOMAIN settlements :
              \A p \in MunParents(ToStr(s)) :
                  (MunParents(ToStr(s)) = {p} /\ LevelOf(p) \in {"3", "4"})
                      => settlements[s].municipality_id = ToInt(p)

\* settlement 2 has the MUN parent 1 and the ADM parent 3, both
\* municipalities, and is linked to 1
C1_Witness ==
    /\ Done("build_hierarchy_links_fixed")
    /\ MunParents("2") = {"1"}
    /\ AdmParents("2") = {"3"}
    /\ LevelOf("1") = "4" /\ LevelOf("3") = "3"
    /\ 2 \in DOMAIN settlements
    /\ settlements[2].municipality_id = 1

\* the object at position n of the walk o -> hierarchy_map[o] -> ..., "" once
\* the walk has left the map
RECURSIVE Anc(_, _)
Anc(o, n) ==
    IF n = 0
    THEN o
    ELSE LET below == Anc(o, n - 1)
         IN  IF below \in DOMAIN hierarchy_map THEN hierarchy_map[below] ELSE ""

\* a walk that has not left the map after as many steps as the map has keys
\* is on a cycle and has shown all its objects
WalkPositions == 0..Cardinality(DOMAIN hierarchy_map)

\* the positions of the walk from o that hold an object of a target level
TargetPositions(o, target_levels) ==
    {n \in WalkPositions : Anc(o, n) # "" /\ LevelOf(Anc(o, n)) \in target_levels}

Least(S) == CHOOSE n \in S : \A m \in S : n <= m

\* the walk from o never leaves the map
Cyclic(o) == \A n \in WalkPositions : Anc(o, n) \in DOMAIN hierarchy_map

Returned(fn) == w.pc = "returned" /\ w.fn = fn /\ w.objectid # None

\* C2 (first ancestor): when find_parent_by_level returns for an object, the
\* result is the first object of the walk object -> hierarchy_map[object] ->
\* ... whose level is a target level, the object itself being position 0,
\* and it is None when no object of the walk has a target level.
C2_FirstAncestor ==
    Returned("find_parent_by_level") =>
        LET o   == ToStr(w.objectid)
            pos == TargetPositions(o, w.target_levels)
        IN  IF pos = {}
            THEN w.result = None
            ELSE /\ w.result = ToInt(Anc(o, Least(pos)))
                 /\ LevelOf(ToStr(w.result)) \in w.target_levels

\* the walk passes an object without a target level and then meets two
\* different objects of a target level; the nearer one is returned
C2_Witness ==
    /\ Returned("find_parent_by_level")
    /\ LET o   == ToStr(w.objectid)
           pos == TargetPositions(o, w.target_levels)
       IN  /\ Cardinality({Anc(o, n) : n \in pos}) = 2
           /\ Least(pos) = 1
           /\ w.result = ToInt(Anc(o, 1))

\* C3 (cycle tolerance): on every parent map, self-edges and cycles
\* included, every iteration of the loop of find_parent_by_level and of
\* find_mo_parent either returns or adds an object to visited that was not
\* in it, so that no object is visited twice and the loop ends after at most
\* as many iterations as there are objects; and on a cycle without an object
\* of a target level the result is None.
C3_CycleTolerance ==
    /\ [](w.pc \in {"loop", "returned"} =>
            /\ Len(w.added) = Cardinality(w.visited)
            /\ w.visited = SeqToSet(w.added)
            /\ w.visited \subseteq WalkIds)
    /\ [][w.pc = "loop" =>
            \/ w'.pc = "returned"
            \/ w.visited \subseteq w'.visited /\ w.visited # w'.visited]_vars
    /\ []((/\ w.pc = "returned" /\ w.objectid # None
           /\ Cyclic(ToStr(w.objectid))
           /\ TargetPositions(ToStr(w.objectid), w.target_levels) = {})
          => w.result = None)

\* the cycle 1 -> 2 -> 1 without a municipality: find_mo_parent visits 1 and
\* 2 once each and returns None
C3_Witness ==
    /\ w.pc = "returned" /\ w.fn = "find_mo_parent" /\ w.objectid = 1
    /\ "1" \in DOMAIN hierarchy_map /\ hierarchy_map["1"] = "2"
    /\ "2" \in DOMAIN hierarchy_map /\ hierarchy_map["2"] = "1"
    /\ w.added = <<"1", "2">>
    /\ w.result = None

\* C4 (a house agrees with its street): after a complete run every house
\* with a street_id and a municipality_id whose street has a municipality_id
\* carries the municipality_id of the street, on every parent and level map.
C4_HouseAgreesWithStreet ==
    Finished =>
        \A o \in DOMAIN houses :
            LET h == houses[o]
            IN  (/\ h.street_id # None /\ h.municipality_id # None
                 /\ h.street_id \in DOMAIN streets
                 /\ streets[h.street_id].municipality_id # None)
                => h.municipality_id = streets[h.street_id].municipality_id

\* the run has ended with a house in one municipality and its street in
\* another
C4_Disagreement ==
    /\ Finished
    /\ \E o \in DOMAIN houses :
          LET h == houses[o]
          IN  /\ h.street_id \in DOMAIN streets
              /\ h.municipality_id \in DOMAIN municipalities
              /\ streets[h.street_id].municipality_id \in DOMAIN municipalities
              /\ h.municipality_id # streets[h.street_id].municipality_id

\* C5 (referential integrity): after a complete run every houses.street_id
\* that is not NULL is a row of streets, every houses.municipality_id that
\* is not NULL is a row of municipalities of level 3 or 4, and every
\* streets.settlement_id that is not NULL is a row of settlements of level 5
\* or 6.
C5_ReferentialIntegrity ==
    Finished =>
        /\ \A o \in DOMAIN houses :
              /\ houses[o].street_id # None =>
                    houses[o].street_id \in DOMAIN streets
              /\ houses[o].municipality_id # None =>
                    /\ houses[o].municipality_id \in DOMAIN municipalities
                    /\ municipalities[houses[o].municipality_id].level
                          \in {"3", "4"}
        /\ \A t \in DOMAIN streets :
              streets[t].settlement_id # None =>
                  /\ streets[t].settlement_id \in DOMAIN settlements
                  /\ settlements[streets[t].settlement_id].level \in {"5", "6"}

\* a complete run has resolved a street and a municipality for a house and
\* a settlement for a street
C5_Witness ==
    /\ Finished
    /\ \E o \in DOMAIN houses :
          houses[o].street_id # None /\ houses[o].municipality_id # None
    /\ \E t \in DOMAIN streets : streets[t].settlement_id # None

\* C6 (through-street fill): after a complete run of main() no house has a
\* NULL municipality_id while its street_id is a street with a
\* municipality_id.
C6_ThroughStreetFilled ==
    Finished =>
        \A o \in DOMAIN houses :
            ~ (/\ houses[o].municipality_id = None
               /\ houses[o].street_id \in DOMAIN streets
               /\ streets[houses[o].street_id].municipality_id # None)

\* the run has ended with a house without municipality on a street that has
\* one
C6_Unfilled ==
    /\ Finished
    /\ \E o \in DOMAIN houses :
          /\ houses[o].municipality_id = None
          /\ houses[o].street_id \in DOMAIN streets
          /\ streets[houses[o].street_id].municipality_id # None

\* phase p has returned before phase q in this run
Before(p, q) ==
    \E i \in 1..Len(log), j \in 1..Len(log) : i < j /\ log[i] = p /\ log[j] = q

\* C7 (reconciliation pass): in every complete run fix_final_mo_connections,
\* the through-street fill followed by the direct lookup for the houses
\* still without municipality, runs after link_houses_to_hierarchy_fixed and
\* before build_full_addresses.
C7_ReconciliationRuns ==
    Finished =>
        /\ Before("link_houses_to_hierarchy_fixed", "fix_final_mo_connections")
        /\ Before("fix_final_mo_connections", "build_full_addresses")

\* the run has ended without the pass, which would still change a house
C7_PassMissing ==
    /\ Finished
    /\ ~ Done("fix_final_mo_connections")
    /\ FixedFinalMoConnections # houses

\* hierarchy_map and level_map hold all that the three scans put in them
IndexBuilt ==
    /\ Done("load_hierarchy_and_levels")
    /\ hierarchy_map = LoadedHierarchy(xml)
    /\ level_map = LoadedLevels(xml)

\* the step adds a row to a table
Stages ==
    \/ ~ (DOMAIN municipalities' \subseteq DOMAIN municipalities)
    \/ ~ (DOMAIN settlements' \subseteq DOMAIN settlements)
    \/ ~ (DOMAIN streets' \subseteq DOMAIN streets)
    \/ ~ (DOMAIN houses' \subseteq DOMAIN houses)
    \/ ~ (DOMAIN land_plots' \subseteq DOMAIN land_plots)

\* C8 (phase ordering): within a run a row is staged only when the index
\* holds the result of all three scans; when the parent resolver starts on
\* the address objects and on the houses, process_addr_objects has returned
\* and its writes are committed; when the house resolver and the parameter
\* pass start, process_houses has returned; build_full_addresses starts
\* after the plots are staged and linked, and no table changes after it.
C8_PhaseOrdering ==
    /\ [][Stages => IndexBuilt]_vars
    /\ []((At("build_hierarchy_links_fixed") \/ At("link_houses_to_hierarchy_fixed"))
            => (Done("process_addr_objects") /\ ~ uncommitted))
    /\ []((At("link_houses_to_hierarchy_fixed") \/ At("process_house_params"))
            => Done("process_houses"))
    /\ [](At("build_full_addresses")
            => (Done("process_land_plots") /\ Done("link_land_plots_to_hierarchy")))
    /\ [][Done("build_full_addresses") => tables' = tables]_vars

\* a complete run in program order that has staged, linked and addressed a
\* house and staged a plot
C8_Witness ==
    /\ Finished
    /\ log = MainSteps
    /\ \E o \in DOMAIN houses : houses[o].full_address # NullText
    /\ land_plots # EmptyTable

\* C9 (idempotence): the second run on the same directory ends with the
\* tables the first run ended with, and after create_schema no row of an
\* earlier run is left in any table.
C9_Idempotent ==
    /\ (run = 2 /\ Finished) => tables = first_run
    /\ log = <<"create_schema">> =>
          tables = <<EmptyTable, EmptyTable, EmptyTable, EmptyTable, EmptyTable>>

\* the second run has ended with a linked house that carries a parameter
C9_Witness ==
    /\ run = 2 /\ Finished
    /\ \E o \in DOMAIN houses :
          /\ houses[o].municipality_id # None
          /\ houses[o].cadastral_number # NullText
    /\ land_plots # EmptyTable

\* the OBJECT records of the address files
AddrRecords == SeqToSet(Records(xml.addr))

BothFlags(r) == r.ISACTUAL = "1" /\ r.ISACTIVE = "1"

\* the objects with an OBJECT record with both flags and a level in levels
ActiveObjects(levels) ==
    {ToInt(r.OBJECTID) : r \in {x \in AddrRecords : BothFlags(x) /\ x.LEVEL \in levels}}

\* the number of OBJECT records with both flags and a level in levels
ActiveCount(levels) ==
    LET records == Records(xml.addr)
    IN  Cardinality({i \in DOMAIN records :
                        BothFlags(records[i]) /\ records[i].LEVEL \in levels})

RoutedLevels == {"3", "4", "5", "6", "7", "8"}

C12_NoSelfParent ==
    Done("build_hierarchy_links_fixed") =>
        /\ \A o \in DOMAIN municipalities : municipalities[o].parent_id # o
        /\ \A o \in DOMAIN settlements : settlements[o].municipality_id # o

\* the pass has returned and a settlement is its own municipality
C12_SelfParent ==
    /\ Done("build_hierarchy_links_fixed")
    /\ \E o \in DOMAIN settlements : settlements[o].municipality_id = o


\* C13: address composition fills full_address exactly for the houses whose
\* municipality_id, settlement_id and street_id are all non-null and
\* reference existing rows; every other house keeps full_address NULL.
C13_FilledIffAllAncestors ==
    Done("build_full_addresses") =>
        \A o \in DOMAIN houses :
            houses[o].full_address # NullText
                <=> /\ houses[o].municipality_id # None
                    /\ houses[o].settlement_id # None
                    /\ houses[o].street_id # None
                    /\ houses[o].municipality_id \in DOMAIN municipalities
                    /\ houses[o].settlement_id \in DOMAIN settlements
                    /\ houses[o].street_id \in DOMAIN streets

\* the composer has run over a house with all three ancestors
C13_Witness ==
    /\ Done("build_full_addresses")
    /\ \E o \in DOMAIN houses :
          /\ houses[o].full_address # NullText
          /\ houses[o].municipality_id # None
          /\ houses[o].settlement_id # None
          /\ houses[o].street_id # None


\* the parts of the address of house h, in order; an absent part is NullText
AddressParts(h) ==
    LET m   == municipalities[h.municipality_id]
        set == settlements[h.settlement_id]
        st  == streets[h.street_id]
    IN  <<m.name,
          set.typename \o <<" ">> \o set.name,
          st.typename \o <<" ">> \o st.name,
          IF h.house_number = NullText THEN NullText
          ELSE <<"d", ".", " ">> \o h.house_number,
          IF h.building_number = NullText THEN NullText
          ELSE <<"k", ".", " ">> \o h.building_number,
          IF h.structure_number = NullText THEN NullText
          ELSE <<"s", "t", "r", ".", " ">> \o h.structure_number>>

\* the texts of parts joined by a comma and a space
RECURSIVE CommaJoined(_)
CommaJoined(parts) ==
    IF Len(parts) = 0 THEN <<>>
    ELSE IF Len(parts) = 1 THEN parts[1]
    ELSE CommaJoined(SubSeq(parts, 1, Len(parts) - 1))
             \o <<",", " ">> \o parts[Len(parts)]

\* the comma-joined present parts of the address of house h
JoinedAddress(h) ==
    CommaJoined(SelectSeq(AddressParts(h), LAMBDA part : part # NullText))

\* text a is text t without the spaces at its two ends
IsTrimmed(a, t) ==
    /\ a # <<>> => Head(a) # " " /\ a[Len(a)] # " "
    /\ \E i \in 0..Len(t) :
          /\ i + Len(a) <= Len(t)
          /\ SubSeq(t, i + 1, i + Len(a)) = a
          /\ \A k \in (1..i) \cup ((i + Len(a) + 1)..Len(t)) : t[k] = " "

\* C14: for every house with a non-NULL full_address, the address is the
\* comma-joined sequence, in order and skipping the absent parts, of the
\* municipality name, settlement type and name, street type and name, house,
\* building and structure number with their prefixes, with the spaces at
\* the two ends of the joined text removed; it is a function of those fields.
C14_TrimmedCommaJoin ==
    Done("build_full_addresses") =>
        \A o \in DOMAIN houses :
            houses[o].full_address # NullText =>
                IsTrimmed(houses[o].full_address, JoinedAddress(houses[o]))

\* the address is the comma-joined sequence itself
C14_CommaJoin ==
    Done("build_full_addresses") =>
        \A o \in DOMAIN houses :
            houses[o].full_address # NullText =>
                houses[o].full_address = JoinedAddress(houses[o])

\* an address composed with a part absent and spaces removed at an end
C14_Witness ==
    /\ Done("build_full_addresses")
    /\ \E o \in DOMAIN houses :
          /\ houses[o].full_address # NullText
          /\ houses[o].building_number = NullText
          /\ houses[o].house_number # NullText
          /\ houses[o].full_address # JoinedAddress(houses[o])


\* the PARAM records of type typeid for house o, in file order
ParamsOf(o, typeid) ==
    SelectSeq(Records(xml.params),
              LAMBDA r : r.OBJECTID # "" /\ ToInt(r.OBJECTID) = o /\ r.TYPEID = typeid)

\* the integers the value of a PARAM record parses to: none or one
ParsedInteger(r) ==
    IF r.VALUE = NullText THEN {} ELSE IntOfFloat(Strip(r.VALUE))

\* the number the records leave in a numeric field: that of the last record
\* whose value parses to an integer in 0..1000, NULL without one
LastInRange(records) ==
    LET good == SelectSeq(records,
                          LAMBDA r : \E n \in ParsedInteger(r) : 0 <= n /\ n <= 1000)
    IN  IF good = <<>>
        THEN NullNum
        ELSE CHOOSE n \in ParsedInteger(good[Len(good)]) : TRUE

\* C15: a PARAM record of type 14 (residents_count) or 15 (floors_count)
\* changes the house field iff its value parses to an integer n with
\* 0 <= n <= 1000, and then stores n; any other value leaves the field as
\* it was, NULL if never set, and the run goes on.
C15_NumericValidation ==
    Done("process_house_params") =>
        \A o \in DOMAIN houses :
            /\ houses[o].residents_count = LastInRange(ParamsOf(o, "14"))
            /\ houses[o].floors_count = LastInRange(ParamsOf(o, "15"))

\* the run has finished over a house with a numeric record out of the range
\* or malformed and a field set by a record in the range
C15_Witness ==
    /\ Finished
    /\ \E o \in DOMAIN houses :
          /\ \E i \in 1..Len(ParamsOf(o, "14")) :
                \A n \in ParsedInteger(ParamsOf(o, "14")[i]) : n < 0 \/ n > 1000
          /\ houses[o].residents_count \in 0..1000


\* the text the records leave in cadastral_number: of the last record whose
\* trimmed value is non-empty and holds a colon, the first 100 characters of
\* the trimmed value; NULL without such a record
LastCadastral(records) ==
    LET trimmed(r) == IF r.VALUE = NullText THEN <<>> ELSE Strip(r.VALUE)
        good == SelectSeq(records,
                          LAMBDA r : /\ trimmed(r) # <<>>
                                     /\ \E k \in 1..Len(trimmed(r)) :
                                            trimmed(r)[k] = ":")
        last == trimmed(good[Len(good)])
    IN  IF good = <<>>
        THEN NullText
        ELSE [k \in 1..(IF Len(last) > 100 THEN 100 ELSE Len(last)) |-> last[k]]

\* C16: a PARAM record of type 8 changes houses.cadastral_number iff its
\* trimmed value is non-empty and contains a colon, and then stores the
\* trimmed value cut to 100 characters; otherwise the field is unchanged.
C16_CadastralValidation ==
    Done("process_house_params") =>
        \A o \in DOMAIN houses :
            houses[o].cadastral_number = LastCadastral(ParamsOf(o, "8"))

\* the run has finished with a cadastral number that was trimmed or cut and
\* a later record without a colon that left it in place
C16_Witness ==
    /\ Finished
    /\ \E o \in DOMAIN houses :
          LET records == ParamsOf(o, "8")
          IN  /\ Len(records) = 2
              /\ houses[o].cadastral_number # NullText
              /\ houses[o].cadastral_number # records[1].VALUE
              /\ houses[o].cadastral_number = LastCadastral(<<records[1]>>)
              /\ LastCadastral(<<records[2]>>) = NullText


\* the first record of records for object o
FirstOf(records, o) ==
    records[CHOOSE i \in 1..Len(records) :
                /\ ToInt(records[i].OBJECTID) = o
                /\ \A j \in 1..(i - 1) : ToInt(records[j].OBJECTID) # o]

\* the table holds one row per object of records, with the columns of its
\* first record
HoldsFirstRecords(table, records, columns) ==
    /\ DOMAIN table = {ToInt(records[i].OBJECTID) : i \in 1..Len(records)}
    /\ \A o \in DOMAIN table :
          \A c \in DOMAIN columns : table[o][c] = FirstOf(records, o)[columns[c]]

\* the active OBJECT records of the levels of a table, in stream order
ActiveOfLevels(levels) ==
    SelectSeq(Records(xml.addr),
              LAMBDA r : r.ISACTUAL = "1" /\ r.ISACTIVE = "1" /\ r.LEVEL \in levels)

\* the active records of a leaf file group, in stream order
ActiveLeaves(files) ==
    SelectSeq(Records(files), LAMBDA r : r.ISACTUAL = "1" /\ r.ISACTIVE = "1")

ObjectColumns == [id |-> "ID", name |-> "NAME", level |-> "LEVEL"]

\* C11: each entity table holds at most one row per objectid (a table is a
\* function of objectid), and when the source holds several active records
\* with one objectid, the row is that of the first one in stream order.
C11_SkipOnConflict ==
    /\ Done("process_addr_objects") =>
          /\ HoldsFirstRecords(municipalities, ActiveOfLevels({"3", "4"}),
                               ObjectColumns)
          /\ HoldsFirstRecords(settlements, ActiveOfLevels({"5", "6"}),
                               ObjectColumns)
          /\ HoldsFirstRecords(streets, ActiveOfLevels({"7", "8"}), ObjectColumns)
    /\ Done("process_houses") =>
          HoldsFirstRecords(houses, ActiveLeaves(xml.houses),
                            [id |-> "ID", house_number |-> "HOUSENUM"])
    /\ Done("process_land_plots") =>
          HoldsFirstRecords(land_plots, ActiveLeaves(xml.steads),
                            [id |-> "ID", number_plot |-> "NUMBER"])

\* the run has finished on a source with two different active records for
\* one municipality, one house and one plot
C11_Witness ==
    /\ Finished
    /\ \E r \in SeqToSet(ActiveOfLevels({"3", "4"})) :
          /\ ToInt(r.OBJECTID) \in DOMAIN municipalities
          /\ r.LEVEL # municipalities[ToInt(r.OBJECTID)].level
    /\ \E r \in SeqToSet(ActiveLeaves(xml.houses)) :
          /\ ToInt(r.OBJECTID) \in DOMAIN houses
          /\ r.HOUSENUM # houses[ToInt(r.OBJECTID)].house_number
    /\ \E r \in SeqToSet(ActiveLeaves(xml.steads)) :
          /\ ToInt(r.OBJECTID) \in DOMAIN land_plots
          /\ r.NUMBER # land_plots[ToInt(r.OBJECTID)].number_plot


\* the phases main() calls after process_addr_objects
LaterPhases == {MainSteps[i] : i \in 4..Len(MainSteps)}

\* C17: if no AS_ADDR_OBJ file is found the run aborts with an error: no
\* later phase executes and the run does not end as a success.
C17_MissingAddrIsFatal ==
    xml.addr = <<>> =>
        /\ \A phase \in LaterPhases : ~ Done(phase)
        /\ ~ Finished
        /\ exit_code # 0

\* without AS_ADDR_OBJ files main() has staged the houses, run every later
\* phase and returned from its last statement, and the process ended with 0
C17_RunGoesOn ==
    /\ xml.addr = <<>>
    /\ \A phase \in LaterPhases : Done(phase)
    /\ ~ ("exception" \in SeqToSet(log))
    /\ houses # EmptyTable
    /\ Exited
    /\ exit_code = 0


\* the objects of the active records of the first file of a group: with two
\* files, the batch written before the batch of the second file
FirstBatch(files, levels) ==
    IF Len(files) < 2
    THEN {}
    ELSE {ToInt(r.OBJECTID) : r \in {x \in SeqToSet(files[1]) :
                                          /\ x.ISACTUAL = "1" /\ x.ISACTIVE = "1"
                                          /\ levels # {} => x.LEVEL \in levels}}

\* C18: a storage error during one batch write rolls back that batch only:
\* once main() is over every phase has executed, and the rows of the batch
\* written before the failing one are in the tables.
C18_BatchIsolation ==
    (Finished \/ Aborted \/ Exited) =>
        /\ \A i \in 1..Len(MainSteps) : Done(MainSteps[i])
        /\ FirstBatch(xml.addr, {"3", "4"}) \subseteq DOMAIN municipalities
        /\ FirstBatch(xml.houses, {}) \subseteq DOMAIN houses
        /\ FirstBatch(xml.steads, {}) \subseteq DOMAIN land_plots

\* the batch of the second AS_HOUSES file raised on the primary key: main()
\* is over, the house of the first batch is not stored and the phases after
\* process_houses have not run
C18_RunAbandoned ==
    /\ Aborted
    /\ log = SubSeq(MainSteps, 1, 4) \o <<"exception">>
    /\ FirstBatch(xml.houses, {}) # {}
    /\ houses = EmptyTable


\* the phase main() was in when the run was stopped after batch k
StoppedIn(phase, k) ==
    /\ log # <<>>
    /\ log[Len(log)] = Interrupted(k)
    /\ MainSteps[Len(log)] = phase

\* C19: a phase that is told to stop commits the transaction of the
\* current batch and returns: after a stop that arrives when the first of
\* two batches is written, the rows of that batch are stored.
C19_StopCommitsBatch ==
    /\ StoppedIn("process_addr_objects", 1) =>
          FirstBatch(xml.addr, {"3", "4"}) \subseteq DOMAIN municipalities
    /\ StoppedIn("process_houses", 1) =>
          FirstBatch(xml.houses, {}) \subseteq DOMAIN houses
    /\ StoppedIn("process_land_plots", 1) =>
          FirstBatch(xml.steads, {}) \subseteq DOMAIN land_plots

\* the run was stopped in process_houses after the batch of the first of
\* two files: the process has ended and the house of that batch is not
\* stored
C19_BatchDiscarded ==
    /\ Exited
    /\ StoppedIn("process_houses", 1)
    /\ FirstBatch(xml.houses, {}) # {}
    /\ houses = EmptyTable


\* the parser failed: the connection was refused or a phase raised
ParserFailed ==
    "connect failed" \in SeqToSet(log) \/ "exception" \in SeqToSet(log)

\* C20: the version token is persisted only after a successful core run:
\* if the parser fails, its process ends with a non-zero code,
\* update_database returns False and check_and_update does not call
\* save_current_version.
C20_TokenOnlyAfterSuccess ==
    ParserFailed =>
        /\ exit_code # 0
        /\ updater.pc # "returned True"
        /\ ~ updater.saved

\* a phase of the parser raised, its process ended with code 0, and
\* check_and_update saved the latest version and returned True
C20_TokenAfterFailure ==
    /\ "exception" \in SeqToSet(log)
    /\ exit_code = 0
    /\ updater.pc = "returned True"
    /\ updater.saved
    /\ updater.current_version = updater.latest_version


\* C21: find_mo_parent(id) returns what find_parent_by_level(id, {'3', '4'})
\* returns, for every id (None and ids absent from both maps included) and
\* every parent map and level map, with cycles and missing levels.
C21_MoParentIsLevelResolver ==
    /\ (w.pc = "returned" /\ w.fn = "find_mo_parent") =>
          w.result = FindParentByLevel(w.objectid, {"3", "4"})
    /\ \A objectid \in 0..(MaxWalkId + 1) :
          FindMoParent(objectid) = FindParentByLevel(objectid, {"3", "4"})

\* find_mo_parent has returned the second ancestor of an object whose
\* parent has another level, on a map that holds a cycle
C21_Witness ==
    /\ Returned("find_mo_parent")
    /\ w.added = <<"1", "2">>
    /\ w.result = 3
    /\ "3" \in DOMAIN hierarchy_map /\ hierarchy_map["3"] = "3"

\* C22 (the index is read-only): once load_hierarchy_and_levels has returned,
\* no phase of main() changes hierarchy_map or level_map, and no statement of
\* find_parent_by_level or find_mo_parent changes them either.
C22_IndexReadOnly ==
    [][(Done("load_hierarchy_and_levels") \/ w' # w)
          => UNCHANGED <<hierarchy_map, level_map>>]_vars

\* every phase has run on an index that gave the settlement its municipality
\* and the plot its settlement, and the index is the one that was loaded
C22_Witness ==
    /\ Finished
    /\ hierarchy_map = LoadedHierarchy(xml) /\ hierarchy_map # EmptyMap
    /\ level_map = LoadedLevels(xml) /\ level_map # EmptyMap
    /\ \E s \in DOMAIN settlements : settlements[s].municipality_id # None
    /\ \E p \in DOMAIN land_plots : land_plots[p].settlement_id # None

\* the active edges of `child` with a parent, in the order of the scan
ActiveEdges(records, child) ==
    SelectSeq(records, LAMBDA attr : /\ attr.ISACTIVE = "1"
                                     /\ attr.OBJECTID = child
                                     /\ attr.PARENTOBJID # "")

EdgeChildren ==
    {attr.OBJECTID : attr \in SeqToSet(Records(xml.mun)) \cup SeqToSet(Records(xml.adm))}

\* C23 (duplicate edges): once load_hierarchy_and_levels has returned, a child
\* with active MUN edges is mapped to the parent of the last of them in scan
\* order; a child with no active MUN edge and some active ADM edges is mapped
\* to the parent of the first active ADM edge; a child all of whose edges are
\* inactive or without parent is not in the map, so such an edge neither
\* enters the map nor keeps an active ADM edge out of it.
C23_DuplicateEdges ==
    Done("load_hierarchy_and_levels") =>
        \A child \in EdgeChildren \ {""} :
            LET mun == ActiveEdges(Records(xml.mun), child)
                adm == ActiveEdges(Records(xml.adm), child)
            IN  /\ mun # <<>> =>
                      /\ child \in DOMAIN hierarchy_map
                      /\ hierarchy_map[child] = mun[Len(mun)].PARENTOBJID
                /\ (mun = <<>> /\ adm # <<>>) =>
                      /\ child \in DOMAIN hierarchy_map
                      /\ hierarchy_map[child] = adm[1].PARENTOBJID
                /\ (mun = <<>> /\ adm = <<>>) =>
                      child \notin DOMAIN hierarchy_map

\* object 2 has the active MUN edges to 1 and then to 3 and an active ADM
\* edge to 1, and the index holds 3
C23_Witness ==
    /\ Done("load_hierarchy_and_levels")
    /\ ActiveEdges(Records(xml.mun), "2") = <<Item("2", "1", "1"), Item("2", "3", "1")>>
    /\ ActiveEdges(Records(xml.adm), "2") # <<>>
    /\ hierarchy_map["2"] = "3"

\* the rows the calls so far have passed to the table `name`
RECURSIVE RowsPassed(_, _)
RowsPassed(calls, name) ==
    IF calls = <<>>
    THEN <<>>
    ELSE (IF Head(calls).table = name THEN Head(calls).rows ELSE <<>>)
         \o RowsPassed(Tail(calls), name)

\* the rows of the elements read so far that belong to the table `name`
RECURSIVE RowsRead(_, _, _)
RowsRead(fn, read, name) ==
    IF read = <<>>
    THEN <<>>
    ELSE (IF BatchName(fn, Head(read)) = name
          THEN <<BatchRow(fn, Head(read))>> ELSE <<>>)
         \o RowsRead(fn, Tail(read), name)

\* the updates of the houses visited so far that resolved an ancestor
RECURSIVE UpdatesRead(_)
UpdatesRead(read) ==
    IF read = <<>>
    THEN <<>>
    ELSE (IF Resolved(HouseUpdate(Head(read)))
          THEN <<HouseUpdate(Head(read))>> ELSE <<>>)
         \o UpdatesRead(Tail(read))

InStager == w.fn \in {"process_addr_objects", "process_houses"}

InLinker == w.fn = "link_houses_to_hierarchy_fixed"

\* C24 (batching loses nothing): for every threshold from 1, at every point of
\* a stager the rows passed to the batch inserts of a table followed by the
\* rows waiting in its list are the rows of the active elements read so far,
\* each once and in order, and nothing waits when the stager commits; the
\* same holds of the updates of the houses with a resolved ancestor in the
\* linker; and the committed tables are those of a single insert per file and
\* of a single pass of updates, whatever the threshold.
C24_BatchingLosesNothing ==
    /\ (InStager /\ w.pc # "raised") =>
          \A name \in DOMAIN w.batches :
              RowsPassed(w.calls, name) \o w.batches[name]
                  = RowsRead(w.fn, w.read, name)
    /\ (InStager /\ w.pc = "returned") =>
          /\ w.read = Records(IF w.fn = "process_houses" THEN xml.houses
                              ELSE xml.addr)
          /\ \A name \in DOMAIN w.batches : w.batches[name] = <<>>
          /\ \A i \in 1..Len(w.calls) :
                Len(w.calls[i].rows) \in 1..w.threshold
          /\ ~uncommitted
          /\ LET none == [rows |-> EmptyTable, raised |-> FALSE]
                 acc  == [m |-> EmptyTable, s |-> EmptyTable, t |-> EmptyTable,
                          mb |-> <<>>, sb |-> <<>>, tb |-> <<>>,
                          counters |-> NoCounts, raised |-> FALSE]
                 addr == AddrFiles(xml.addr, acc)
             IN  /\ houses = LeafFiles(xml.houses, none, "HOUSE").rows
                 /\ municipalities = addr.m
                 /\ settlements = addr.s
                 /\ streets = addr.t
    /\ InLinker =>
          RowsPassed(w.calls, "houses") \o w.batches = UpdatesRead(w.read)
    /\ (InLinker /\ w.pc = "returned") =>
          /\ SeqToSet(w.read) = DOMAIN houses
          /\ ~uncommitted
          /\ houses = [house_id \in DOMAIN w.before |->
                          LET u == HouseUpdate(house_id)
                          IN  IF Resolved(u)
                              THEN [w.before[house_id] EXCEPT
                                       !.street_id = u.street_id,
                                       !.settlement_id = u.settlement_id,
                                       !.municipality_id = u.mo_id]
                              ELSE w.before[house_id]]

\* process_houses has committed two files under the threshold 2: the first
\* with three active houses went in a full batch and a remainder of one
C24_Witness ==
    /\ w.fn = "process_houses" /\ w.pc = "returned"
    /\ w.threshold = 2
    /\ Len(xml.houses) = 2
    /\ Len(w.calls) = 3
    /\ Len(w.calls[1].rows) = 2 /\ Len(w.calls[2].rows) = 1
    /\ DOMAIN houses = {1, 2}

\* the plots that lack a municipality although their settlement has one
UnrepairedPlots ==
    {o \in DOMAIN land_plots :
        /\ land_plots[o].municipality_id = None
        /\ land_plots[o].settlement_id \in DOMAIN settlements
        /\ settlements[land_plots[o].settlement_id].municipality_id # None}

\* C25 (repair of the plots through the settlement): when fix_municipality_links
\* has run, the plots have been staged and linked before it, and at the end of
\* a complete run every plot whose settlement_id references a settlement with
\* a municipality has a municipality itself.
C25_PlotsRepairedThroughSettlement ==
    /\ Done("fix_municipality_links") =>
          /\ Done("process_land_plots")
          /\ Done("link_land_plots_to_hierarchy")
    /\ Finished => UnrepairedPlots = {}

\* the run is complete, the repair ran on an empty land_plots before the
\* plots were staged, and a linked plot is left without the municipality
\* its settlement has
C25_PlotLeftUnrepaired ==
    /\ Finished
    /\ Before("fix_municipality_links", "process_land_plots")
    /\ UnrepairedPlots # {}

\* C26 (updater step order): the steps check_and_update has called are an
\* initial part of version check, download, extraction, backup, file
\* replacement, database update, version save, in this order; a step that
\* failed is the last one called, the call has returned False and the stored
\* version is the installed one; and when the call is not forced and the
\* installed version is the latest, none of download, backup, file
\* replacement and database update is called and the call returns True.
C26_StepOrder ==
    /\ Len(updater.calls) <= Len(StepOrder)
    /\ updater.calls = SubSeq(StepOrder, 1, Len(updater.calls))
    /\ \A i \in 1..Len(updater.calls) :
          env.outcome[updater.calls[i]] # "ok" =>
              /\ i = Len(updater.calls)
              /\ updater.pc = "returned False"
              /\ updater.current_version = updater.installed
    /\ (~ updater.force /\ updater.installed = updater.latest_version) =>
          /\ SeqToSet(updater.calls) \subseteq {"get_version_info"}
          /\ updater.pc \in {"get_version_info", "get_current_version",
                             "returned True", "returned False"}
          /\ (Len(updater.calls) = 1 /\ env.outcome["get_version_info"] = "ok"
                 /\ updater.pc # "get_current_version")
                => updater.pc = "returned True"

\* every step before the version save succeeded, the write of
\* current_version.txt failed, and check_and_update returned True with the
\* old version stored
C26_SaveFailedReturnedTrue ==
    /\ updater.calls = StepOrder
    /\ env.outcome["save_current_version"] = "fails"
    /\ updater.pc = "returned True"
    /\ updater.current_version = updater.installed
    /\ updater.installed = "v1"

\* the nearest object of level 3 or 4 above o on its parent chain, o itself
\* not counted; None when there is none
NearestMoAncestor(o) ==
    LET above == {n \in TargetPositions(ToStr(o), {"3", "4"}) :
                     n >= 1 /\ Anc(ToStr(o), n) # ToStr(o)}
    IN  IF above = {} THEN None ELSE ToInt(Anc(ToStr(o), Least(above)))

\* C27 (municipality nesting): after build_hierarchy_links_fixed a
\* municipality whose parent chain holds another object of level 3 or 4 has
\* the nearest such ancestor as parent_id, and a municipality without such an
\* ancestor has parent_id NULL.
C27_MunicipalityNesting ==
    Done("build_hierarchy_links_fixed") =>
        \A mun_id \in DOMAIN municipalities :
            municipalities[mun_id].parent_id = NearestMoAncestor(mun_id)

\* the pass has returned and a municipality of level 4 directly under a
\* municipality of level 3 has parent_id NULL
C27_NestedWithoutParent ==
    /\ Done("build_hierarchy_links_fixed")
    /\ \E mun_id \in DOMAIN municipalities :
          /\ LevelOf(ToStr(mun_id)) = "4"
          /\ ToStr(mun_id) \in DOMAIN hierarchy_map
          /\ LevelOf(hierarchy_map[ToStr(mun_id)]) = "3"
          /\ ToInt(hierarchy_map[ToStr(mun_id)]) \in DOMAIN municipalities
          /\ NearestMoAncestor(mun_id) = ToInt(hierarchy_map[ToStr(mun_id)])
          /\ municipalities[mun_id].parent_id = None

\* C28 (the municipality of a street comes through its settlement only):
\* after build_hierarchy_links_fixed a street has a municipality_id exactly
\* when its settlement_id references a settlement row with a municipality_id,
\* and then the two are equal; a street without ancestor of level 5 or 6 has
\* municipality_id NULL, also with an object of level 3 or 4 on its chain.
C28_StreetMunicipalityThroughSettlement ==
    Done("build_hierarchy_links_fixed") =>
        \A street_id \in DOMAIN streets :
            LET row == streets[street_id]
                through == /\ row.settlement_id \in DOMAIN settlements
                           /\ settlements[row.settlement_id].municipality_id # None
            IN  /\ row.municipality_id # None <=> through
                /\ through => row.municipality_id
                                = settlements[row.settlement_id].municipality_id
                /\ FindParentByLevel(street_id, {"5", "6"}) = None
                      => row.municipality_id = None

\* street 4 lies under settlement 3 and has its municipality 1; street 2
\* lies directly under municipality 1, without settlement, and has none
C28_Witness ==
    /\ Done("build_hierarchy_links_fixed")
    /\ DOMAIN streets = {2, 4}
    /\ streets[4].settlement_id = 3 /\ streets[4].municipality_id = 1
    /\ settlements[3].municipality_id = 1
    /\ streets[2].settlement_id = None /\ streets[2].municipality_id = None
    /\ FindParentByLevel(2, {"3", "4"}) = 1

\* no two active records of AS_ADDR_OBJ give one OBJECTID two levels
SingleLevels ==
    \A a \in SeqToSet(Records(xml.addr)), b \in SeqToSet(Records(xml.addr)) :
        (IsActiveRecord(a) /\ IsActiveRecord(b) /\ a.OBJECTID = b.OBJECTID)
            => a.LEVEL = b.LEVEL

\* C29 (the repair through the settlement is redundant): on an input in which
\* every object id has a single level fix_municipality_links changes no row
\* of houses, and its statement for the plots changes no row because
\* land_plots is empty when it runs.
C29_RepairChangesNothing ==
    [][(SingleLevels /\ At("fix_municipality_links"))
          => /\ houses' = houses
             /\ land_plots' = land_plots
             /\ DOMAIN land_plots = {}]_vars

\* the ids of the input, as spelled in the files
SpelledIds ==
    {a.OBJECTID : a \in SeqToSet(Records(xml.addr))}
    \cup {a.OBJECTID : a \in SeqToSet(Records(xml.mun)) \cup SeqToSet(Records(xml.adm))}
    \cup {a.PARENTOBJID : a \in SeqToSet(Records(xml.mun)) \cup SeqToSet(Records(xml.adm))}
    \cup {a.OBJECTID : a \in SeqToSet(Records(xml.houses))}

\* every id is spelled as str(int(id)) spells it
SingleSpellings == \A id \in SpelledIds \ {""} : ToStr(ToInt(id)) = id

\* C29 as amended: on an input in which every object id has a single level
\* and a single spelling fix_municipality_links changes no row of houses,
\* and its statement for the plots changes no row because land_plots is
\* empty when it runs.
C29_RepairChangesNothingOneSpelling ==
    [][(SingleLevels /\ SingleSpellings /\ At("fix_municipality_links"))
          => /\ houses' = houses
             /\ land_plots' = land_plots
             /\ DOMAIN land_plots = {}]_vars

\* on such an input fix_municipality_links has returned, the house lies in a
\* settlement that has a municipality, and the house has the municipality the
\* linker found
C29_Witness ==
    /\ SingleLevels /\ SingleSpellings
    /\ Done("fix_municipality_links")
    /\ \E o \in DOMAIN houses :
          /\ houses[o].settlement_id \in DOMAIN settlements
          /\ settlements[houses[o].settlement_id].municipality_id # None
          /\ houses[o].municipality_id = FindMoParent(o)
          /\ houses[o].municipality_id # None

\* the PARAM elements of type typeid for house o read so far
ParamsRead(o, typeid) ==
    SelectSeq(w.read,
              LAMBDA r : r.OBJECTID # "" /\ ToInt(r.OBJECTID) = o /\ r.TYPEID = typeid)

\* C30 (the parameter pass: the last accepted value wins, nothing is
\* destroyed): at every point of the stream each of cadastral_number,
\* residents_count and floors_count of a house holds the validated value of
\* the last accepted PARAM read so far for that house and type, NULL without
\* one, so that a rejected value or a type that is not mapped neither changes
\* nor clears a field; a PARAM for an object that is no staged house creates
\* no row; and no other column of houses changes.
C30_LastAcceptedWins ==
    w.fn = "process_house_params" =>
        /\ DOMAIN houses = DOMAIN w.before
        /\ \A o \in DOMAIN houses :
              /\ houses[o].cadastral_number = LastCadastral(ParamsRead(o, "8"))
              /\ houses[o].residents_count = LastInRange(ParamsRead(o, "14"))
              /\ houses[o].floors_count = LastInRange(ParamsRead(o, "15"))
              /\ [houses[o] EXCEPT !.cadastral_number = NullText,
                                   !.residents_count = NullNum,
                                   !.floors_count = NullNum] = w.before[o]

\* three elements have been read: an accepted number of residents, a PARAM
\* of the same type with a rejected value, and the first element for an
\* object that is no house or of a type that is not mapped; the house holds
\* the accepted number
C30_Witness ==
    /\ w.fn = "process_house_params" /\ Len(w.read) = 3
    /\ w.read[1].OBJECTID = "4" \/ w.read[1].TYPEID = "5"
    /\ w.read[2].TYPEID = "14" /\ w.read[2].VALUE = <<" ", "5", " ">>
    /\ w.read[3].TYPEID = "14" /\ w.read[3].VALUE = <<"1", "0", "0", "1">>
    /\ houses[3].residents_count = 5
    /\ DOMAIN houses = {3}

=============================================================================
